---- MODULE Spec2Model ----
(***************************************************************************)
(* configlib: resolution of a configuration record from command-line       *)
(* flags, environment variables and declared defaults.                      *)
(*                                                                         *)
(* The model follows Parser.Parse step by step: walkStruct, registerFlags, *)
(* the token loop of flagSet.Parse, the help check, the Visit of the       *)
(* boolean flags, and the merge pass of applyValues one descriptor at a    *)
(* time.  Strings are TLA+ strings; the string functions of the Go         *)
(* standard library that the code calls are operators on them.             *)
(***************************************************************************)
EXTENDS Integers, Sequences, FiniteSets, TLC

(***************************************************************************)
(* Strings                                                                 *)
(***************************************************************************)

\* s[i] as a one-character string, "" when i is outside s
Ch(s, i) == IF 1 <= i /\ i <= Len(s) THEN SubSeq(s, i, i) ELSE ""

\* s[i:] with a 1-based i
From(s, i) == IF i <= Len(s) THEN SubSeq(s, i, Len(s)) ELSE ""

Lower == "abcdefghijklmnopqrstuvwxyz"
Upper == "ABCDEFGHIJKLMNOPQRSTUVWXYZ"
Digits == "0123456789"

\* the printable ASCII characters in byte order: 32 (space) to 95, and 97 to 126
AsciiLow == " !\"#$%&'()*+,-./0123456789:;<=>?@ABCDEFGHIJKLMNOPQRSTUVWXYZ[\\]^_"
AsciiHigh == "abcdefghijklmnopqrstuvwxyz{|}~"

\* position of the one-character string c in s, 0 when absent
RECURSIVE PosFrom(_, _, _)
PosFrom(s, c, i) ==
  IF i > Len(s) THEN 0
  ELSE IF Ch(s, i) = c THEN i
  ELSE PosFrom(s, c, i + 1)

Pos(s, c) == PosFrom(s, c, 1)

IsDigit(c) == Pos(Digits, c) > 0

DigitVal(c) == Pos(Digits, c) - 1

\* byte value of a character (tab, newline and carriage return included)
Ord(c) ==
  IF c = "\t" THEN 9
  ELSE IF c = "\n" THEN 10
  ELSE IF c = "\r" THEN 13
  ELSE IF Pos(AsciiLow, c) > 0 THEN 31 + Pos(AsciiLow, c)
  ELSE 96 + Pos(AsciiHigh, c)

\* strings.HasPrefix
HasPrefix(s, prefix) ==
  /\ Len(s) >= Len(prefix)
  /\ SubSeq(s, 1, Len(prefix)) = prefix

\* strings.ReplaceAll replacing the first occurrence only
ReplaceFirst(s, old, new) ==
  IF Pos(s, old) = 0 THEN s
  ELSE SubSeq(s, 1, Pos(s, old) - 1) \o new \o From(s, Pos(s, old) + Len(old))

\* strings.ReplaceAll for a one-character old and new
RECURSIVE ReplaceAll(_, _, _)
ReplaceAll(s, old, new) ==
  IF s = "" THEN ""
  ELSE (IF Ch(s, 1) = old THEN new ELSE Ch(s, 1)) \o ReplaceAll(From(s, 2), old, new)

UpperChar(c) == IF Pos(Lower, c) > 0 THEN Ch(Upper, Pos(Lower, c)) ELSE c

LowerChar(c) == IF Pos(Upper, c) > 0 THEN Ch(Lower, Pos(Upper, c)) ELSE c

\* strings.ToUpper
RECURSIVE ToUpper(_)
ToUpper(s) == IF s = "" THEN "" ELSE UpperChar(Ch(s, 1)) \o ToUpper(From(s, 2))

\* strings.ToLower
RECURSIVE ToLower(_)
ToLower(s) == IF s = "" THEN "" ELSE LowerChar(Ch(s, 1)) \o ToLower(From(s, 2))

IsSpace(c) == c \in {" ", "\t", "\n", "\r", "\f"}

RECURSIVE TrimLeft(_)
TrimLeft(s) == IF s # "" /\ IsSpace(Ch(s, 1)) THEN TrimLeft(From(s, 2)) ELSE s

RECURSIVE TrimRight(_)
TrimRight(s) ==
  IF s # "" /\ IsSpace(Ch(s, Len(s))) THEN TrimRight(SubSeq(s, 1, Len(s) - 1)) ELSE s

\* strings.TrimSpace
TrimSpace(s) == TrimRight(TrimLeft(s))

\* strings.Split for a one-character separator: always at least one element
RECURSIVE Split(_, _)
Split(s, sep) ==
  LET i == Pos(s, sep)
  IN IF i = 0 THEN <<s>>
     ELSE <<SubSeq(s, 1, i - 1)>> \o Split(From(s, i + 1), sep)

\* strings.Join
RECURSIVE Join(_, _)
Join(parts, sep) ==
  IF parts = <<>> THEN ""
  ELSE IF Len(parts) = 1 THEN parts[1]
  ELSE parts[1] \o sep \o Join(Tail(parts), sep)

\* strings.Contains
RECURSIVE Contains(_, _)
Contains(s, sub) ==
  IF Len(s) < Len(sub) THEN FALSE
  ELSE IF HasPrefix(s, sub) THEN TRUE
  ELSE Contains(From(s, 2), sub)

\* byte-wise a < b, the order of sort.Slice on flag names
RECURSIVE StrLess(_, _)
StrLess(a, b) ==
  IF b = "" THEN FALSE
  ELSE IF a = "" THEN TRUE
  ELSE IF Ch(a, 1) = Ch(b, 1) THEN StrLess(From(a, 2), From(b, 2))
  ELSE Ord(Ch(a, 1)) < Ord(Ch(b, 1))

\* strconv.Quote (the %q verb) for printable ASCII, tab and newline
RECURSIVE QuoteBody(_)
QuoteBody(s) ==
  IF s = "" THEN ""
  ELSE LET c == Ch(s, 1)
       IN (IF c = "\"" THEN "\\\""
           ELSE IF c = "\\" THEN "\\\\"
           ELSE IF c = "\n" THEN "\\n"
           ELSE IF c = "\t" THEN "\\t"
           ELSE IF c = "\r" THEN "\\r"
           ELSE c) \o QuoteBody(From(s, 2))

Quote(s) == "\"" \o QuoteBody(s) \o "\""

(***************************************************************************)
(* strconv                                                                 *)
(***************************************************************************)

RECURSIVE AllDigits(_)
AllDigits(s) == s = "" \/ (IsDigit(Ch(s, 1)) /\ AllDigits(From(s, 2)))

RECURSIVE StripZeros(_)
StripZeros(s) == IF Len(s) > 1 /\ Ch(s, 1) = "0" THEN StripZeros(From(s, 2)) ELSE s

\* the magnitude limits of a 64-bit int, compared digit by digit
MaxInt64Digits == "9223372036854775807"
MinInt64Digits == "9223372036854775808"

\* a <= b for digit strings without leading zeros
DigitsLeq(a, b) ==
  \/ Len(a) < Len(b)
  \/ Len(a) = Len(b) /\ (a = b \/ StrLess(a, b))

HasSign(s) == s # "" /\ Ch(s, 1) \in {"+", "-"}

\* the digits of s after an optional sign
Magnitude(s) == IF HasSign(s) THEN From(s, 2) ELSE s

\* the largest uint64, and the largest value that times ten is still one
MaxUint64Digits == "18446744073709551615"
UintCutoffDigits == "1844674407370955161"

\* the loop of strconv.ParseUint in base 10 over s, n being the value read
\* so far: "syntax" at a character that is no digit, "range" at the digit
\* with which the value passes 64 bits, "" when s is read to its end
RECURSIVE UintScan(_, _)
UintScan(s, n) ==
  IF s = "" THEN ""
  ELSE IF ~IsDigit(Ch(s, 1)) THEN "syntax"
  ELSE IF ~DigitsLeq(n, UintCutoffDigits) THEN "range"
  ELSE IF ~DigitsLeq(StripZeros(n \o Ch(s, 1)), MaxUint64Digits) THEN "range"
  ELSE UintScan(From(s, 2), StripZeros(n \o Ch(s, 1)))

\* the characters of s read from left to right after an optional sign
AtoiScan(s) == IF Magnitude(s) = "" THEN "syntax" ELSE UintScan(Magnitude(s), "0")

\* strconv.Atoi fails with ErrSyntax
AtoiSyntaxErr(s) == AtoiScan(s) = "syntax"

\* strconv.Atoi fails with ErrRange: the digits pass 64 bits before a
\* character that is no digit is met, or all are digits and the value is
\* outside the 64-bit int
AtoiRangeErr(s) ==
  \/ AtoiScan(s) = "range"
  \/ /\ AtoiScan(s) = ""
     /\ ~DigitsLeq(StripZeros(Magnitude(s)),
                   IF Ch(s, 1) = "-" THEN MinInt64Digits ELSE MaxInt64Digits)

RECURSIVE DigitsValue(_, _)
DigitsValue(s, acc) ==
  IF s = "" THEN acc ELSE DigitsValue(From(s, 2), acc * 10 + DigitVal(Ch(s, 1)))

\* strconv.Atoi: err is "" on success (val is read on success only)
Atoi(s) ==
  IF AtoiSyntaxErr(s) THEN
    [err |-> "strconv.Atoi: parsing " \o Quote(s) \o ": invalid syntax", val |-> 0]
  ELSE IF AtoiRangeErr(s) THEN
    [err |-> "strconv.Atoi: parsing " \o Quote(s) \o ": value out of range", val |-> 0]
  ELSE
    [err |-> "",
     val |-> IF Ch(s, 1) = "-" THEN 0 - DigitsValue(Magnitude(s), 0)
             ELSE DigitsValue(Magnitude(s), 0)]

\* strconv.ParseBool
ParseBool(s) ==
  IF s \in {"1", "t", "T", "TRUE", "true", "True"} THEN [err |-> "", val |-> TRUE]
  ELSE IF s \in {"0", "f", "F", "FALSE", "false", "False"} THEN [err |-> "", val |-> FALSE]
  ELSE [err |-> "strconv.ParseBool: parsing " \o Quote(s) \o ": invalid syntax", val |-> FALSE]

\* strconv.FormatBool
FormatBool(b) == IF b THEN "true" ELSE "false"

\* length of the longest run of digits at the start of s
RECURSIVE DigitRun(_)
DigitRun(s) == IF s # "" /\ IsDigit(Ch(s, 1)) THEN 1 + DigitRun(From(s, 2)) ELSE 0

\* the mantissa of a decimal float: the fraction digits of fracSrc and what
\* follows them
FloatFractionOf(int, fracSrc, nf) ==
  [int |-> int, frac |-> SubSeq(fracSrc, 1, nf), rest |-> From(fracSrc, nf + 1)]

\* the mantissa after its integer digits: an optional '.' and fraction digits
FloatFraction(int, afterInt) ==
  IF afterInt # "" /\ Ch(afterInt, 1) = "."
  THEN FloatFractionOf(int, From(afterInt, 2), DigitRun(From(afterInt, 2)))
  ELSE [int |-> int, frac |-> "", rest |-> afterInt]

\* the mantissa of body, whose first ni characters are its integer digits
FloatMantissaOf(body, ni) == FloatFraction(SubSeq(body, 1, ni), From(body, ni + 1))

\* the mantissa of the unsigned text body: integer digits, fraction digits
\* and the rest of the text
FloatMantissa(body) == FloatMantissaOf(body, DigitRun(body))

\* the exponent written as expSrc after the 'e', expDigits being its digits
FloatExponentOf(expSrc, expDigits) ==
  [ok |-> expDigits # "" /\ AllDigits(expDigits),
   val |-> IF expDigits # "" /\ AllDigits(expDigits)
           THEN (IF Ch(expSrc, 1) = "-" THEN 0 - DigitsValue(expDigits, 0)
                 ELSE DigitsValue(expDigits, 0))
           ELSE 0]

\* what follows the mantissa: nothing, or (e|E) [+-] digits
FloatExponent(rest) ==
  IF rest # "" /\ Ch(rest, 1) \in {"e", "E"}
  THEN FloatExponentOf(From(rest, 2), Magnitude(From(rest, 2)))
  ELSE [ok |-> rest = "", val |-> 0]

\* the parts of s given its mantissa m and its exponent x
FloatPartsOf(s, m, x) ==
  [ok |-> Len(m.int) + Len(m.frac) > 0 /\ x.ok,
   neg |-> s # "" /\ Ch(s, 1) = "-",
   int |-> m.int,
   frac |-> m.frac,
   exp |-> x.val]

\* the parts of s given its mantissa m
FloatPartsWith(s, m) == FloatPartsOf(s, m, FloatExponent(m.rest))

\* the decimal floating-point syntax of strconv.ParseFloat split into its
\* parts: sign, integer digits, fraction digits, exponent; ok is FALSE when
\* s is not of the form [+-] digits [. digits] [(e|E) [+-] digits] with at
\* least one mantissa digit
FloatParts(s) == FloatPartsWith(s, FloatMantissa(Magnitude(s)))

\* the words strconv.ParseFloat accepts besides numbers
FloatSpecial(s) ==
  LET l == ToLower(s)
  IN IF l \in {"inf", "+inf", "infinity", "+infinity"} THEN "+Inf"
     ELSE IF l \in {"-inf", "-infinity"} THEN "-Inf"
     ELSE IF l = "nan" THEN "NaN"
     ELSE ""

RECURSIVE StripTrailingZeros(_)
StripTrailingZeros(s) ==
  IF s # "" /\ Ch(s, Len(s)) = "0" THEN StripTrailingZeros(SubSeq(s, 1, Len(s) - 1)) ELSE s

\* a decimal number m * 10^e in normal form: m has no trailing zero, and zero
\* is m = 0, e = 0; special names an infinity or NaN and is "" for a number
FloatNorm(neg, digits, e) ==
  LET d == StripTrailingZeros(digits)
      m == DigitsValue(d, 0)
  IN IF m = 0 THEN [m |-> 0, e |-> 0, special |-> ""]
     ELSE [m |-> IF neg THEN 0 - m ELSE m, e |-> e + (Len(digits) - Len(d)), special |-> ""]

\* the significant digits of the number with parts p, "" for zero
FloatDigits(p) == StripTrailingZeros(StripZeros(p.int \o p.frac))

\* the decimal exponent of its first significant digit
FloatLead(p) == p.exp - Len(p.frac) + Len(StripZeros(p.int \o p.frac)) - 1

\* the first digits of the limits of the two formats: the midpoint between
\* the largest finite value and the next power of two (times 10^308 and
\* 10^38), half the smallest positive value (times 10^-324 and 10^-46)
Float64OverDigits == "179769313486231580793"
Float64UnderDigits == "247032822920623272088"
Float32OverDigits == "340282356779733661637"
Float32UnderDigits == "700649232162408535461"

\* the number with parts p, digits d and leading exponent x rounded to a
\* format with the given limits: an infinity from the upper limit on, zero
\* below the lower one, else the number itself
FloatRound(p, d, x, over, overExp, under, underExp) ==
  IF d = "" THEN [m |-> 0, e |-> 0, special |-> ""]
  ELSE IF x > overExp \/ (x = overExp /\ StrLess(over, d)) THEN
    [m |-> 0, e |-> 0, special |-> IF p.neg THEN "-Inf" ELSE "+Inf"]
  ELSE IF x < underExp \/ (x = underExp /\ StrLess(d, under)) THEN
    [m |-> 0, e |-> 0, special |-> ""]
  ELSE FloatNorm(p.neg, p.int \o p.frac, p.exp - Len(p.frac))

Float64Of(p) ==
  FloatRound(p, FloatDigits(p), FloatLead(p), Float64OverDigits, 308, Float64UnderDigits, 0 - 324)

\* float32(x), the conversion reflect's SetFloat makes for a float32 field
Float32Of(p) ==
  FloatRound(p, FloatDigits(p), FloatLead(p), Float32OverDigits, 38, Float32UnderDigits, 0 - 46)

\* strconv.ParseFloat of s, given the special word it spells ("" if none),
\* its parts p and the float64 v they round to
ParseFloatOf(s, special, p, v) ==
  IF special # "" THEN
    [err |-> "", val |-> [m |-> 0, e |-> 0, special |-> special]]
  ELSE IF ~p.ok THEN
    [err |-> "strconv.ParseFloat: parsing " \o Quote(s) \o ": invalid syntax",
     val |-> [m |-> 0, e |-> 0, special |-> ""]]
  ELSE IF v.special # "" THEN
    [err |-> "strconv.ParseFloat: parsing " \o Quote(s) \o ": value out of range",
     val |-> v]
  ELSE [err |-> "", val |-> v]

\* strconv.ParseFloat(s, 64) on decimal input: a value beyond the range is
\* an infinity with ErrRange, one below it is zero, and any other is the
\* number written, as mantissa and decimal exponent, which names one float
\* as long as it has at most 15 significant digits (6 in a float32 field);
\* longer mantissas, subnormal values, hexadecimal floats and digit
\* separators are outside the inputs considered
ParseFloat(s) ==
  ParseFloatOf(s, FloatSpecial(s), FloatParts(s),
               IF FloatParts(s).ok THEN Float64Of(FloatParts(s))
               ELSE [m |-> 0, e |-> 0, special |-> ""])

\* what SetFloat stores in a float32 field for the text s parsed as r
SetFloat32(s, r) ==
  IF r.err # "" \/ r.val.special # "" THEN r
  ELSE [err |-> "", val |-> Float32Of(FloatParts(s))]

(***************************************************************************)
(* Record types.  A member is a leaf with its struct tags or a nested     *)
(* record; exported is what reflect's CanSet reports for it.               *)
(***************************************************************************)

NoTag ==
  [env |-> "", flag |-> "", cli |-> "", default |-> "", required |-> "", desc |-> ""]

Leaf(name, kind, tag) ==
  [name |-> name, exported |-> TRUE, kind |-> kind, elem |-> "", tag |-> tag,
   members |-> <<>>]

SliceOf(name, elem, tag) ==
  [name |-> name, exported |-> TRUE, kind |-> "slice", elem |-> elem, tag |-> tag,
   members |-> <<>>]

Unexported(name, kind) ==
  [name |-> name, exported |-> FALSE, kind |-> kind, elem |-> "", tag |-> NoTag,
   members |-> <<>>]

Nested(name, members) ==
  [name |-> name, exported |-> TRUE, kind |-> "struct", elem |-> "", tag |-> NoTag,
   members |-> members]

Tag(env, flag, default, required, desc) ==
  [env |-> env, flag |-> flag, cli |-> "", default |-> default, required |-> required,
   desc |-> desc]

\* the tags of a field that names its flags under the key cli, as the README
\* and part of the tests write them
CliTag(env, cli, default, required, desc) ==
  [env |-> env, flag |-> "", cli |-> cli, default |-> default, required |-> required,
   desc |-> desc]

\* the options of NewParser
NoOptions == [disableAutoEnv |-> FALSE, disableAutoFlag |-> FALSE, envPrefix |-> ""]

Options(noEnv, noFlag, prefix) ==
  [disableAutoEnv |-> noEnv, disableAutoFlag |-> noFlag, envPrefix |-> prefix]

(***************************************************************************)
(* walkStruct and parseFieldTags                                           *)
(***************************************************************************)

\* the trimmed parts without the empty ones
RECURSIVE TrimAll_dropEmpty(_)
TrimAll_dropEmpty(parts) ==
  IF parts = <<>> THEN <<>>
  ELSE (IF TrimSpace(Head(parts)) = "" THEN <<>> ELSE <<TrimSpace(Head(parts))>>)
       \o TrimAll_dropEmpty(Tail(parts))

\* each part with strings.TrimSpace applied
RECURSIVE TrimAll(_)
TrimAll(parts) ==
  IF parts = <<>> THEN <<>> ELSE <<TrimSpace(Head(parts))>> \o TrimAll(Tail(parts))

\* the environment name derived although auto-derivation is disabled
envBase_auto(tag, path, o) ==
  IF tag.env # "" THEN tag.env ELSE ToUpper(ReplaceAll(path, ".", "_"))

\* the environment name before the prefix: the env tag, or the name derived
\* from the path
envBase(tag, path, o) ==
  IF tag.env # "" THEN tag.env
  ELSE IF ~o.disableAutoEnv THEN ToUpper(ReplaceAll(path, ".", "_"))
  ELSE ""

\* the prefix added without looking at the name
withPrefix_always(name, prefix) ==
  IF name # "" /\ prefix # "" THEN prefix \o name ELSE name

\* the prefix applied to an environment name
withPrefix(name, prefix) ==
  IF name # "" /\ prefix # "" /\ ~HasPrefix(name, prefix) THEN prefix \o name ELSE name

\* the flag names: the flag tag split at commas and trimmed, or the name
\* derived from the path
cliNames(tag, path, o) ==
  IF tag.flag # "" THEN TrimAll(Split(tag.flag, ","))
  ELSE IF ~o.disableAutoFlag THEN <<ToLower(ReplaceAll(path, ".", "-"))>>
  ELSE <<>>

\* fieldInfo given its flag names; Value, the reflect.Value of the member, is
\* the record variable the member belongs to: with FieldPath it names the
\* storage a descriptor writes
fieldInfoOf(m, path, value, envName, flags) ==
  [EnvName |-> envName,
   CliName |-> IF flags = <<>> THEN "" ELSE flags[1],
   CliNames |-> flags,
   DefaultVal |-> m.tag.default,
   Required |-> (m.tag.required = "true"),
   Description |-> m.tag.desc,
   FieldPath |-> path,
   Value |-> value,
   Kind |-> m.kind,
   Elem |-> m.elem]

parseFieldTags(m, path, value, o) ==
  fieldInfoOf(m, path, value, withPrefix(envBase(m.tag, path, o), o.envPrefix),
              cliNames(m.tag, path, o))

\* the walk keeping a descriptor for every exported leaf
RECURSIVE walkStruct_keepAll(_, _, _, _)
walkStruct_keepAll(val, members, pathPrefix, o) ==
  IF members = <<>> THEN <<>>
  ELSE
    LET m == Head(members)
        fieldPath == IF pathPrefix # "" THEN pathPrefix \o "." \o m.name ELSE m.name
        here == IF ~m.exported THEN <<>>
                ELSE IF m.kind = "struct" THEN walkStruct_keepAll(val, m.members, fieldPath, o)
                ELSE <<parseFieldTags(m, fieldPath, val, o)>>
    IN here \o walkStruct_keepAll(val, Tail(members), pathPrefix, o)

RECURSIVE walkStruct(_, _, _, _)
walkStruct(val, members, pathPrefix, o) ==
  IF members = <<>> THEN <<>>
  ELSE
    LET m == Head(members)
        fieldPath == IF pathPrefix # "" THEN pathPrefix \o "." \o m.name ELSE m.name
        info == parseFieldTags(m, fieldPath, val, o)
        here == IF ~m.exported THEN <<>>
                ELSE IF m.kind = "struct" THEN walkStruct(val, m.members, fieldPath, o)
                ELSE IF info.EnvName # "" \/ info.CliName # "" \/ info.DefaultVal # ""
                     THEN <<info>>
                ELSE <<>>
    IN here \o walkStruct(val, Tail(members), pathPrefix, o)

\* the zero value of a field of the given kind
ZeroValue(kind) ==
  IF kind = "string" THEN ""
  ELSE IF kind \in {"float32", "float64"} THEN [m |-> 0, e |-> 0, special |-> ""]
  ELSE IF kind = "bool" THEN FALSE
  ELSE IF kind = "slice" THEN <<>>
  ELSE 0

\* every leaf of the record, settable or not, with its path and kind
RECURSIVE Leaves(_, _)
Leaves(members, pathPrefix) ==
  IF members = <<>> THEN <<>>
  ELSE
    LET m == Head(members)
        fieldPath == IF pathPrefix # "" THEN pathPrefix \o "." \o m.name ELSE m.name
    IN (IF m.kind = "struct" THEN Leaves(m.members, fieldPath)
        ELSE <<[path |-> fieldPath, kind |-> m.kind]>>)
       \o Leaves(Tail(members), pathPrefix)

\* var cfg T: every leaf holds the zero value of its kind
ZeroRecord(members) ==
  LET ls == Leaves(members, "")
  IN [p \in {ls[i].path : i \in 1..Len(ls)} |->
        ZeroValue(ls[CHOOSE i \in 1..Len(ls) : ls[i].path = p].kind)]

\* a value a caller may have stored in a field of the given kind
FilledValue(kind) ==
  IF kind = "string" THEN "old"
  ELSE IF kind \in {"float32", "float64"} THEN [m |-> 5, e |-> 0, special |-> ""]
  ELSE IF kind = "bool" THEN TRUE
  ELSE IF kind = "slice" THEN <<"old">>
  ELSE 5

\* cfg := T{...}: every leaf holds a value the caller stored
FilledRecord(members) ==
  LET ls == Leaves(members, "")
  IN [p \in {ls[i].path : i \in 1..Len(ls)} |->
        FilledValue(ls[CHOOSE i \in 1..Len(ls) : ls[i].path = p].kind)]

(***************************************************************************)
(* NewParser and registerFlags.  formal is the flag set's table of         *)
(* registered names: the kind of handler and the primary name under which  *)
(* the handler records.                                                    *)
(***************************************************************************)

\* the two reserved switches, both bound to showHelp
HelpFlags == ("help" :> [kind |-> "help", primary |-> ""]) @@
             ("h" :> [kind |-> "help", primary |-> ""])

\* a switch whose default case registers a string handler
HandlerKind_default(kind) ==
  IF kind = "int" THEN "int"
  ELSE IF kind \in {"float32", "float64"} THEN "float"
  ELSE IF kind = "bool" THEN "bool"
  ELSE IF kind = "slice" THEN "slice"
  ELSE "string"

\* the handler registered for a field of a kind, "" when the switch has no case
HandlerKind(kind) ==
  IF kind = "string" THEN "string"
  ELSE IF kind = "int" THEN "int"
  ELSE IF kind \in {"float32", "float64"} THEN "float"
  ELSE IF kind = "bool" THEN "bool"
  ELSE IF kind = "slice" THEN "slice"
  ELSE ""

\* FlagSet.Var: the panic message, "" when the name is accepted
VarPanic(formalNow, name) ==
  IF HasPrefix(name, "-") THEN "flag " \o Quote(name) \o " begins with -"
  ELSE IF Pos(name, "=") > 0 THEN "flag " \o Quote(name) \o " contains ="
  ELSE IF name \in DOMAIN formalNow THEN "config flag redefined: " \o name
  ELSE ""

\* the inner loop of registerFlags: the aliases of one field, in order
RECURSIVE registerNames(_, _, _)
registerNames(acc, field, names) ==
  IF names = <<>> \/ acc.panic # "" \/ HandlerKind(field.Kind) = "" THEN acc
  ELSE
    LET flagName == Head(names)
        why == VarPanic(acc.formal, flagName)
    IN IF why # "" THEN [acc EXCEPT !.panic = why]
       ELSE registerNames(
              [acc EXCEPT
                 !.formal = (flagName :> [kind |-> HandlerKind(field.Kind),
                                          primary |-> field.CliName]) @@ acc.formal,
                 !.boolFlags = IF field.Kind = "bool"
                               THEN (flagName :> FALSE) @@ acc.boolFlags
                               ELSE acc.boolFlags],
              field, Tail(names))

RECURSIVE registerFlags(_, _)
registerFlags(acc, fs) ==
  IF fs = <<>> \/ acc.panic # "" THEN acc
  ELSE
    LET field == Head(fs)
    IN IF Len(field.CliNames) = 0 \/ field.CliName = "" THEN registerFlags(acc, Tail(fs))
       ELSE registerFlags(registerNames(acc, field, field.CliNames), Tail(fs))

(***************************************************************************)
(* flagSet.Parse: one call of parseOne                                     *)
(***************************************************************************)

\* handlers that record every token without validating it
HandlerErr_none(kind, s) == ""

\* the error a handler created by createStringHandler, createIntHandler,
\* createFloatHandler or createSliceHandler returns for the token s
HandlerErr(kind, s) ==
  IF kind = "int" /\ Atoi(s).err # "" THEN "invalid integer value: " \o s
  ELSE IF kind = "float" /\ ParseFloat(s).err # "" THEN "invalid float value: " \o s
  ELSE ""

\* the token s split as parseOne splits it: dashes, name, '=' and value
FlagToken(s) ==
  LET numMinuses == IF Ch(s, 2) = "-" THEN 2 ELSE 1
      body == From(s, numMinuses + 1)
      eq == PosFrom(body, "=", 2)
  IN [name |-> IF eq > 0 THEN SubSeq(body, 1, eq - 1) ELSE body,
      hasValue |-> eq > 0,
      value |-> IF eq > 0 THEN From(body, eq + 1) ELSE "",
      bad |-> body = "" \/ Ch(body, 1) \in {"-", "="}]

\* parseOne returning without a flag: parsing ends at the token s with the
\* tokens as left
NoFlagAt(as, s) ==
  [status |-> "end", rest |-> as, tok |-> s, name |-> "", value |-> "",
   hasValue |-> FALSE, kind |-> "", err |-> ""]

\* the value parseOne hands to the flag: bool flags take it from '=' only,
\* the others from '=' or from the next token
flagValue(as, t, kind, takesNext) ==
  IF kind \in {"bool", "help"} THEN (IF t.hasValue THEN t.value ELSE "true")
  ELSE IF t.hasValue THEN t.value
  ELSE IF takesNext THEN as[2]
  ELSE ""

\* failf("invalid value %q for flag -%s: %v", value, name, err) for the
\* error herr of the handler, "" when there is none
invalidValue(name, value, herr) ==
  IF herr # ""
  THEN "invalid value " \o Quote(value) \o " for flag -" \o name \o ": " \o herr
  ELSE ""

\* the error parseOne returns for the flag t of the given kind and value
flagErr(t, kind, takesNext, value) ==
  IF kind \in {"bool", "help"} THEN
    (IF ParseBool(value).err # ""
     THEN "invalid boolean value " \o Quote(value) \o " for -" \o t.name \o ": parse error"
     ELSE "")
  ELSE IF ~t.hasValue /\ ~takesNext THEN "flag needs an argument: -" \o t.name
  ELSE invalidValue(t.name, value, HandlerErr(kind, value))

\* parseOne on a registered flag, given the value it hands to the handler
flagResult(as, s, t, kind, takesNext, value) ==
  [status |-> IF flagErr(t, kind, takesNext, value) # "" THEN "fail" ELSE "flag",
   rest |-> IF takesNext THEN Tail(Tail(as)) ELSE Tail(as),
   tok |-> s, name |-> t.name, value |-> value, hasValue |-> t.hasValue \/ takesNext,
   kind |-> kind, err |-> flagErr(t, kind, takesNext, value)]

\* parseOne on a registered flag, takesNext telling whether the value is the
\* next token
parseFlagOf(as, s, t, kind, takesNext) ==
  flagResult(as, s, t, kind, takesNext, flagValue(as, t, kind, takesNext))

\* parseOne on the registered flag t of the given kind
parseFlag(as, s, t, kind) ==
  parseFlagOf(as, s, t, kind, kind \notin {"bool", "help"} /\ ~t.hasValue /\ Len(as) > 1)

\* parseOne stopping silently at a flag that is not registered
parseToken_lenient(as, s, t, formalNow) ==
  IF Len(s) < 2 \/ Ch(s, 1) # "-" THEN NoFlagAt(as, s)
  ELSE IF s = "--" THEN [NoFlagAt(as, s) EXCEPT !.rest = Tail(as)]
  ELSE IF t.bad \/ t.name \notin DOMAIN formalNow THEN NoFlagAt(as, s)
  ELSE parseFlag(as, s, t, formalNow[t.name].kind)

\* parseOne on the first token s of as, split as t
parseToken(as, s, t, formalNow) ==
  IF Len(s) < 2 \/ Ch(s, 1) # "-" THEN NoFlagAt(as, s)
  ELSE IF s = "--" THEN [NoFlagAt(as, s) EXCEPT !.rest = Tail(as)]
  ELSE IF t.bad THEN
    [NoFlagAt(as, s) EXCEPT !.status = "fail", !.err = "bad flag syntax: " \o s]
  ELSE IF t.name \notin DOMAIN formalNow THEN
    [NoFlagAt(as, s) EXCEPT !.status = "fail", !.rest = Tail(as), !.name = t.name,
                            !.err = "flag provided but not defined: -" \o t.name]
  ELSE parseFlag(as, s, t, formalNow[t.name].kind)

\* parseOne on the remaining tokens as: what it saw, the token in flag
\* position, the flag and the value it handed to the handler (hasValue: the
\* command line supplied that value), the tokens left, the error it returns
parseOne(as, formalNow) ==
  IF as = <<>> THEN NoFlagAt(as, "")
  ELSE parseToken(as, Head(as), FlagToken(Head(as)), formalNow)

(***************************************************************************)
(* setFieldValue and the body of the applyValues loop                      *)
(***************************************************************************)

\* the outcome of setFieldValue for the result r of a strconv call: the
\* field is set only when r has no error
Coercion(r) == [err |-> r.err, assigned |-> r.err = "", val |-> r.val]

\* the coercion of setFieldValue: err is "" on success, assigned is FALSE
\* when the switch has no case for the field's type and nothing is written
setFieldValue(field, value) ==
  IF field.Kind = "string" THEN [err |-> "", assigned |-> TRUE, val |-> value]
  ELSE IF field.Kind = "int" THEN Coercion(Atoi(value))
  ELSE IF field.Kind = "float64" THEN Coercion(ParseFloat(value))
  ELSE IF field.Kind = "float32" THEN Coercion(SetFloat32(value, ParseFloat(value)))
  ELSE IF field.Kind = "bool" THEN Coercion(ParseBool(value))
  ELSE IF field.Kind = "slice" /\ field.Elem = "string" THEN
    [err |-> "", assigned |-> TRUE, val |-> TrimAll(Split(value, ","))]
  ELSE [err |-> "", assigned |-> FALSE, val |-> 0]

\* os.Getenv: an unset variable reads as ""
Getenv(e, name) == IF name \in DOMAIN e THEN e[name] ELSE ""

\* finalValue with the environment consulted before the command line
finalValue_envFirst(field, fv, e) ==
  IF field.EnvName # "" /\ Getenv(e, field.EnvName) # "" THEN
    [hasValue |-> TRUE, value |-> Getenv(e, field.EnvName), source |-> "env"]
  ELSE IF field.CliName # "" /\ field.CliName \in DOMAIN fv /\ fv[field.CliName] # "" THEN
    [hasValue |-> TRUE, value |-> fv[field.CliName], source |-> "cli"]
  ELSE IF field.DefaultVal # "" THEN
    [hasValue |-> TRUE, value |-> field.DefaultVal, source |-> "default"]
  ELSE [hasValue |-> FALSE, value |-> "", source |-> "none"]

\* finalValue taking the CLI value whenever one was recorded, empty or not
finalValue_cliExists(field, fv, e) ==
  IF field.CliName # "" /\ field.CliName \in DOMAIN fv THEN
    [hasValue |-> TRUE, value |-> fv[field.CliName], source |-> "cli"]
  ELSE IF field.EnvName # "" /\ Getenv(e, field.EnvName) # "" THEN
    [hasValue |-> TRUE, value |-> Getenv(e, field.EnvName), source |-> "env"]
  ELSE IF field.DefaultVal # "" THEN
    [hasValue |-> TRUE, value |-> field.DefaultVal, source |-> "default"]
  ELSE [hasValue |-> FALSE, value |-> "", source |-> "none"]

\* finalValue reporting the empty string as the value of a field that no
\* source sets
finalValue_zero(field, fv, e) ==
  IF field.CliName # "" /\ field.CliName \in DOMAIN fv /\ fv[field.CliName] # "" THEN
    [hasValue |-> TRUE, value |-> fv[field.CliName], source |-> "cli"]
  ELSE IF field.EnvName # "" /\ Getenv(e, field.EnvName) # "" THEN
    [hasValue |-> TRUE, value |-> Getenv(e, field.EnvName), source |-> "env"]
  ELSE [hasValue |-> TRUE, value |-> field.DefaultVal, source |-> "default"]

\* the value that wins for a field: CLI, then environment, then default
finalValue(field, fv, e) ==
  IF field.CliName # "" /\ field.CliName \in DOMAIN fv /\ fv[field.CliName] # "" THEN
    [hasValue |-> TRUE, value |-> fv[field.CliName], source |-> "cli"]
  ELSE IF field.EnvName # "" /\ Getenv(e, field.EnvName) # "" THEN
    [hasValue |-> TRUE, value |-> Getenv(e, field.EnvName), source |-> "env"]
  ELSE IF field.DefaultVal # "" THEN
    [hasValue |-> TRUE, value |-> field.DefaultVal, source |-> "default"]
  ELSE [hasValue |-> FALSE, value |-> "", source |-> "none"]

\* missingEntry without the guards on the two source clauses
missingEntry_noGuard(field) ==
  field.FieldPath \o " (" \o Join(<<"env: " \o field.EnvName, "flag: --" \o field.CliName>>, ", ")
  \o ")"

\* one entry of missingFields
missingEntry(field) ==
  LET sources == (IF field.EnvName # "" THEN <<"env: " \o field.EnvName>> ELSE <<>>)
                 \o (IF field.CliName # "" THEN <<"flag: --" \o field.CliName>> ELSE <<>>)
  IN field.FieldPath \o " (" \o Join(sources, ", ") \o ")"

\* missingError reporting the first violation only
missingError_first(missing) == "missing required fields:\n  - " \o missing[1]

\* the aggregated error of applyValues
missingError(missing) == "missing required fields:\n  - " \o Join(missing, "\n  - ")

\* settingError without the field path
settingError_noPath(field, err) == "error setting field: " \o err

\* the error of a failed setFieldValue
settingError(field, err) == "error setting field " \o field.FieldPath \o ": " \o err

(***************************************************************************)
(* The Visit of the flags that were set, in the order of their names       *)
(***************************************************************************)

MinName(names) == CHOOSE n \in names : \A m \in names : m = n \/ StrLess(n, m)

\* the names in descending order
RECURSIVE SortedNames_desc(_)
SortedNames_desc(names) ==
  IF names = {} THEN <<>>
  ELSE SortedNames_desc(names \ {MinName(names)}) \o <<MinName(names)>>

RECURSIVE SortedNames(_)
SortedNames(names) ==
  IF names = {} THEN <<>>
  ELSE <<MinName(names)>> \o SortedNames(names \ {MinName(names)})

\* the Visit callback recording under the name of the flag that was set
visitFields_alias(fv, fs, name, b) == (name :> FormatBool(b)) @@ fv

\* the body of the Visit callback for the flag name, over the fields in order
RECURSIVE visitFields(_, _, _, _)
visitFields(fv, fs, name, b) ==
  IF fs = <<>> THEN fv
  ELSE
    LET field == Head(fs)
        hit == \E i \in 1..Len(field.CliNames) : field.CliNames[i] = name
    IN visitFields(IF hit THEN (field.CliName :> FormatBool(b)) @@ fv ELSE fv,
                   Tail(fs), name, b)

RECURSIVE visitFlags(_, _, _, _)
visitFlags(fv, names, fs, bools) ==
  IF names = <<>> THEN fv
  ELSE visitFlags(IF Head(names) \in DOMAIN bools
                  THEN visitFields(fv, fs, Head(names), bools[Head(names)])
                  ELSE fv,
                  Tail(names), fs, bools)

(***************************************************************************)
(* PrintHelp and printFieldHelp                                            *)
(***************************************************************************)

\* os.Args[0]
ProgName == "app"

\* strings.Repeat(" ", n) for n >= 0
RECURSIVE Spaces(_)
Spaces(n) == IF n <= 0 THEN "" ELSE " " \o Spaces(n - 1)

\* the verb %-*s of fmt: s padded on the right to the width, never cut
PadRight(s, width) == s \o Spaces(width - Len(s))

\* the fields PrintHelp does not skip
hasFlags(field) == ~(Len(field.CliNames) = 0 \/ field.CliName = "")

\* flagLen after the first i names of the field, as PrintHelp adds it up
RECURSIVE namesLen(_, _)
namesLen(names, i) ==
  IF i = 0 THEN 0
  ELSE namesLen(names, i - 1) + (IF i > 1 THEN 2 ELSE 0)
       + (IF Len(names[i]) = 1 THEN 1 + Len(names[i]) ELSE 2 + Len(names[i]))

\* flagLen of one field
flagLen(field) ==
  namesLen(field.CliNames, Len(field.CliNames)) + (IF field.Kind # "bool" THEN 8 ELSE 0)

\* the first loop of PrintHelp: maxWidth before the padding is added
RECURSIVE maxFlagLen(_, _)
maxFlagLen(fs, maxWidth) ==
  IF fs = <<>> THEN maxWidth
  ELSE maxFlagLen(Tail(fs),
                  IF hasFlags(Head(fs)) /\ flagLen(Head(fs)) > maxWidth
                  THEN flagLen(Head(fs)) ELSE maxWidth)

\* flagParts with two dashes before every name
RECURSIVE flagParts_long(_)
flagParts_long(names) ==
  IF names = <<>> THEN <<>>
  ELSE <<"--" \o Head(names)>> \o flagParts_long(Tail(names))

\* flagParts of printFieldHelp
RECURSIVE flagParts(_)
flagParts(names) ==
  IF names = <<>> THEN <<>>
  ELSE <<(IF Len(Head(names)) = 1 THEN "-" ELSE "--") \o Head(names)>>
       \o flagParts(Tail(names))

\* the flag column of printFieldHelp
flagSignature(field) ==
  Join(flagParts(field.CliNames), ", ") \o (IF field.Kind # "bool" THEN " <value>" ELSE "")

\* the description column of printFieldHelp
fieldDesc(field) ==
  (IF field.Description = "" THEN field.FieldPath ELSE field.Description)
  \o (IF field.DefaultVal # "" /\ field.Kind # "bool"
      THEN " (default: " \o field.DefaultVal \o ")" ELSE "")
  \o (IF field.Required THEN " [required]" ELSE "")

\* the line printFieldHelp prints
printFieldHelp(field, width) ==
  "  " \o PadRight(flagSignature(field), width) \o " " \o fieldDesc(field)

\* the second loop of PrintHelp
RECURSIVE fieldLines(_, _)
fieldLines(fs, width) ==
  IF fs = <<>> THEN <<>>
  ELSE (IF hasFlags(Head(fs)) THEN <<printFieldHelp(Head(fs), width)>> ELSE <<>>)
       \o fieldLines(Tail(fs), width)

\* PrintHelp given maxWidth: the lines printed, and the panic of
\* strings.Repeat when its count maxWidth-10 is negative ("" when it returns)
PrintHelpOf(fs, maxWidth) ==
  [out |-> <<"Usage: " \o ProgName \o " [options]", "", "Options:">>
           \o fieldLines(fs, maxWidth)
           \o (IF maxWidth - 10 < 0 THEN <<>>
               ELSE <<"  -h, --help" \o Spaces(maxWidth - 10) \o " Show this help message">>),
   panic |-> IF maxWidth - 10 < 0 THEN "strings: negative Repeat count" ELSE ""]

\* PrintHelp over p.fields
PrintHelp(fs) == PrintHelpOf(fs, maxFlagLen(fs, 0) + 4)

(***************************************************************************)
(* The record types, options, command lines and environments considered   *)
(***************************************************************************)

\* the longest command line built from the alphabet of a case
MaxArgs == 2

\* the longest command line on which Parse is called a second time
MaxArgsAgain == 1

NoEnv == [n \in {} |-> ""]

\* flat record with aliases, defaults and one required field
TypeSimple ==
  << Leaf("Host", "string", Tag("HOST", "host,H", "localhost", "", "Server host")),
     Leaf("Port", "int", Tag("PORT", "port,p", "8080", "", "Server port")),
     Leaf("Debug", "bool", Tag("DEBUG", "debug,d", "", "", "Enable debug mode")),
     Leaf("Key", "string", Tag("KEY", "key", "", "true", "")) >>

\* nested record with auto-derived names, a float, a list and two required fields
TypeNested ==
  << Nested("Server",
       << Leaf("Host", "string", Tag("SERVER_HOST", "server-host", "", "true", "")),
          Leaf("Port", "int", Tag("", "", "80", "", "")) >>),
     Leaf("Rate", "float64", Tag("", "rate,r", "1.5", "", "")),
     SliceOf("Tags", "string", Tag("TAGS", "", "", "", "")),
     Leaf("Token", "string", Tag("", "", "", "true", "Access token")) >>

\* record resolved with both auto-derivations disabled and the prefix APP_
TypeBare ==
  << Leaf("ApiKey", "string", Tag("API_KEY", "", "", "true", "")),
     Leaf("Secret", "string", Tag("", "secret,s", "", "true", "")),
     Leaf("Limit", "int", Tag("", "limit", "1x", "", "")),
     Leaf("Note", "string", NoTag),
     Unexported("hidden", "string"),
     Leaf("Size", "int64", Tag("SIZE", "size", "", "", "")),
     Leaf("Mode", "string", Tag("APP_MODE", "", "dev", "", "")) >>

\* record with an alias equal to the reserved switch h
TypeClash ==
  << Leaf("Host", "string", Tag("HOST", "host,h", "", "", "")) >>

\* record whose two fields derive the same flag name, their names differing
\* in letter case only
TypeSameFlag ==
  << Leaf("Url", "string", Tag("", "", "a", "", "")),
     Leaf("URL", "string", Tag("", "", "b", "", "")) >>

\* record with a duration and a string that declare the same short alias
TypeShared ==
  << Leaf("Timeout", "int64", Tag("TIMEOUT", "timeout,t", "", "", "Request timeout")),
     Leaf("Tags", "string", Tag("TAGS", "tags,t", "", "", "Tags")) >>

\* the record of examples/advanced: boolean switches with a short primary
\* name, one of them true by default, in a nested record
TypeSwitch ==
  << Leaf("Host", "string", Tag("HOST", "host", "localhost", "", "Server host")),
     Leaf("Port", "int", Tag("PORT", "p,port", "8080", "", "Server port")),
     Leaf("Debug", "bool", Tag("DEBUG", "d,debug", "false", "", "Enable debug mode")),
     Leaf("Required", "string", Tag("REQUIRED", "required", "", "true", "Required field")),
     Nested("Server",
       << Nested("TLS",
            << Leaf("Enabled", "bool",
                    Tag("TLS_ENABLED", "t,tls-enabled", "true", "", "Enable TLS")),
               Leaf("Cert", "string",
                    Tag("TLS_CERT", "tls-cert", "", "true", "TLS certificate path")) >>) >>) >>

\* the record of TestEnvPrefix: explicit and auto-derived names under a prefix
TypeEnvPrefix ==
  << Leaf("Field1", "string", Tag("HOST", "", "", "", "")),
     Leaf("Field2", "string", NoTag),
     Nested("Database",
       << Leaf("Name", "string", Tag("DB_NAME", "", "", "", "")),
          Leaf("Port", "int", NoTag) >>) >>

\* the record of TestEnvPrefixNoDoublePrefixing
TypeNoDouble ==
  << Leaf("Field1", "string", Tag("MYAPP_HOST", "", "", "", "")),
     Leaf("Field2", "string", Tag("PORT", "", "", "", "")) >>

\* the record of TestDisableAutoEnv
TypeDisableAutoEnv ==
  << Leaf("Field1", "string", Tag("", "field1", "default1", "", "")),
     Leaf("Field2", "string", Tag("EXPLICIT_ENV", "field2", "", "", "")),
     Nested("Nested", << Leaf("Field3", "string", Tag("", "field3", "", "", "")) >>) >>

\* the record of TestDisableAutoFlag
TypeDisableAutoFlag ==
  << Leaf("Field1", "string", Tag("FIELD1", "", "default1", "", "")),
     Leaf("Field2", "string", Tag("FIELD2", "field2", "", "", "")) >>

\* the record of the older TestMultipleFlags, its flags named under the key cli
TypeMultiFlag ==
  << Leaf("Host", "string", CliTag("HOST", "host,H", "localhost", "", "Server host")),
     Leaf("Port", "int", CliTag("PORT", "port,p", "8080", "", "Server port")),
     Leaf("Debug", "bool", CliTag("DEBUG", "debug,d", "", "", "Enable debug mode")),
     Leaf("APIKey", "string", Tag("API_KEY", "", "", "true", "API key")) >>

\* the example of the README for the key cli: both --host and -h
TypeReadme ==
  << Leaf("Host", "string", CliTag("", "host,h", "", "", "")) >>

\* IntegerTypesConfig
TypeIntegers ==
  << Leaf("Int8Val", "int8", Tag("INT8_VAL", "int8", "42", "", "8-bit signed integer")),
     Leaf("Int16Val", "int16", Tag("INT16_VAL", "int16", "1000", "", "16-bit signed integer")),
     Leaf("Int32Val", "int32",
          Tag("INT32_VAL", "int32", "100000", "", "32-bit signed integer")),
     Leaf("Int64Val", "int64",
          Tag("INT64_VAL", "int64", "9223372036854775807", "", "64-bit signed integer")),
     Leaf("UintVal", "uint", Tag("UINT_VAL", "uint", "100", "", "Unsigned integer")),
     Leaf("Uint8Val", "uint8", Tag("UINT8_VAL", "uint8", "255", "", "8-bit unsigned integer")),
     Leaf("Uint16Val", "uint16",
          Tag("UINT16_VAL", "uint16", "65535", "", "16-bit unsigned integer")),
     Leaf("Uint32Val", "uint32",
          Tag("UINT32_VAL", "uint32", "4294967295", "", "32-bit unsigned integer")),
     Leaf("Uint64Val", "uint64",
          Tag("UINT64_VAL", "uint64", "18446744073709551615", "",
              "64-bit unsigned integer")) >>

\* a record whose only flag is a one-letter boolean switch: the longest flag
\* signature PrintHelp measures is 2 characters
TypeShort ==
  << Leaf("Verbose", "bool", Tag("VERBOSE", "v", "", "", "Verbose output")) >>

\* the record of the comment in parseFieldTags: Server.TLS.Port
TypeDeep ==
  << Nested("Server", << Nested("TLS", << Leaf("Port", "int", NoTag) >>) >>) >>

\* the durations of examples/advanced, a list of integers and a required name
TypeOdd ==
  << Leaf("Timeout", "int64",
          Tag("TIMEOUT", "timeout,t", "30s", "true", "Request timeout")),
     SliceOf("Sizes", "int", Tag("SIZES", "sizes", "", "", "")),
     Leaf("Name", "string", Tag("NAME", "name,n", "", "true", "Application name")) >>

\* a required field without tags next to a field with a default and a field
\* with an environment name only, resolved with both auto-derivations disabled
TypeDropped ==
  << Leaf("Token", "string", Tag("", "", "", "true", "Access token")),
     Leaf("Mode", "string", Tag("MODE", "", "dev", "", "")),
     Leaf("Region", "string", Tag("REGION", "", "", "", "")) >>

\* FloatConfig
TypeFloats ==
  << Leaf("Rate", "float64", Tag("RATE", "rate,r", "1.5", "", "Processing rate")),
     Leaf("Percentage", "float32",
          Tag("PERCENTAGE", "percentage", "", "", "Success percentage")),
     Leaf("Precision", "float64",
          Tag("PRECISION", "precision,p", "", "", "Calculation precision")) >>

\* a string and an int without flag tags, resolved with auto-flag disabled: no
\* flag is registered, so a second call on the same parser registers none twice
TypeUnflagged ==
  << Leaf("S", "string", NoTag),
     Leaf("I", "int", NoTag) >>

\* SliceConfig
TypeSlices ==
  << SliceOf("Hosts", "string", Tag("HOSTS", "hosts", "localhost,127.0.0.1", "", "")),
     SliceOf("Ports", "string", Tag("PORTS", "ports", "", "", "")) >>

Cases ==
  { [name |-> "Simple", type |-> TypeSimple, opts |-> NoOptions,
     tokens |-> {"-H", "--host=", "--host=a", "-H=b", "--port", "-p=", "7", "x", "-d",
                 "-d=no", "--help"},
     envs |-> { NoEnv,
                ("KEY" :> "k") @@ ("PORT" :> "9"),
                ("KEY" :> "k") @@ ("PORT" :> "x"),
                ("KEY" :> "k") @@ ("PORT" :> "99999999999999999999x"),
                ("KEY" :> "") @@ ("HOST" :> "e") @@ ("PORT" :> "9") @@ ("DEBUG" :> "true"),
                ("KEY" :> "k") @@ ("HOST" :> "") @@ ("DEBUG" :> "maybe") }],
    [name |-> "Nested", type |-> TypeNested, opts |-> NoOptions,
     tokens |-> {"--server-port", "x", "-r", "2.50", "--token=", "--token=t", "-h", "--"},
     envs |-> { NoEnv,
                ("SERVER_HOST" :> "s") @@ ("TOKEN" :> "t"),
                "SERVER_PORT" :> "x",
                ("TOKEN" :> "t") @@ ("RATE" :> "abc") @@ ("TAGS" :> "a, b ,c"),
                ("SERVER_HOST" :> "s") @@ ("TOKEN" :> "") @@ ("TAGS" :> "a,,a") }],
    [name |-> "Bare", type |-> TypeBare, opts |-> Options(TRUE, TRUE, "APP_"),
     tokens |-> {"--secret", "-s=", "--limit", "5", "--api-key", "-h=false", "--help"},
     envs |-> { NoEnv,
                "APP_API_KEY" :> "a",
                ("API_KEY" :> "a") @@ ("APP_SIZE" :> "3"),
                ("APP_API_KEY" :> "a") @@ ("APP_MODE" :> "prod") @@ ("SIZE" :> "3") }],
    [name |-> "Clash", type |-> TypeClash, opts |-> NoOptions,
     tokens |-> {"-h"},
     envs |-> { NoEnv }],
    [name |-> "SameFlag", type |-> TypeSameFlag, opts |-> NoOptions,
     tokens |-> {"--url=c"},
     envs |-> { NoEnv }],
    [name |-> "Shared", type |-> TypeShared, opts |-> NoOptions,
     tokens |-> {"-t", "x"},
     envs |-> { NoEnv, "TIMEOUT" :> "7" }],
    [name |-> "Switch", type |-> TypeSwitch, opts |-> NoOptions,
     tokens |-> {"-d", "--debug", "-d=false", "--debug=false", "-t=false"},
     envs |-> { ("REQUIRED" :> "r") @@ ("TLS_CERT" :> "c"),
                ("REQUIRED" :> "r") @@ ("TLS_CERT" :> "c") @@ ("DEBUG" :> "true") }],
    [name |-> "EnvPrefix", type |-> TypeEnvPrefix, opts |-> Options(FALSE, FALSE, "MYAPP_"),
     tokens |-> {"--field2", "v", "--database-port"},
     envs |-> { NoEnv,
                ("MYAPP_HOST" :> "myhost") @@ ("MYAPP_FIELD2" :> "myfield2")
                  @@ ("MYAPP_DB_NAME" :> "mydb") @@ ("MYAPP_DATABASE_PORT" :> "5432"),
                ("HOST" :> "h") @@ ("FIELD2" :> "f") @@ ("DATABASE_PORT" :> "1") }],
    [name |-> "NoDouble", type |-> TypeNoDouble, opts |-> Options(FALSE, FALSE, "MYAPP_"),
     tokens |-> {"--field1", "x"},
     envs |-> { ("MYAPP_HOST" :> "host1") @@ ("MYAPP_PORT" :> "8080"),
                ("MYAPP_MYAPP_HOST" :> "z") @@ ("PORT" :> "1") }],
    [name |-> "EnvOnly", type |-> TypeNoDouble, opts |-> Options(FALSE, TRUE, "MYAPP_"),
     tokens |-> {"--help", "--field1", "-h=", "x"},
     envs |-> { NoEnv, ("MYAPP_HOST" :> "host1") @@ ("MYAPP_PORT" :> "8080") }],
    [name |-> "NoAutoEnv", type |-> TypeDisableAutoEnv, opts |-> Options(TRUE, FALSE, ""),
     tokens |-> {"--field1", "c", "--field3"},
     envs |-> { NoEnv,
                ("FIELD1" :> "from_env1") @@ ("EXPLICIT_ENV" :> "from_env2")
                  @@ ("NESTED_FIELD3" :> "from_env3") }],
    [name |-> "NoAutoFlag", type |-> TypeDisableAutoFlag, opts |-> Options(FALSE, TRUE, ""),
     tokens |-> {"--field2", "from_cli2", "--field1"},
     envs |-> { NoEnv, ("FIELD1" :> "e1") @@ ("FIELD2" :> "e2") }],
    [name |-> "MultiFlag", type |-> TypeMultiFlag, opts |-> NoOptions,
     tokens |-> {"-H", "example.com", "--host", "-d", "--debug"},
     envs |-> { NoEnv, "API_KEY" :> "test-key" }],
    [name |-> "Readme", type |-> TypeReadme, opts |-> NoOptions,
     tokens |-> {"-h", "x", "--host"},
     envs |-> { NoEnv }],
    [name |-> "Short", type |-> TypeShort, opts |-> NoOptions,
     tokens |-> {"-v", "-v=", "-x", "-h"},
     envs |-> { NoEnv, "VERBOSE" :> "true" }],
    [name |-> "Deep", type |-> TypeDeep, opts |-> NoOptions,
     tokens |-> {"--server-tls-port", "7"},
     envs |-> { NoEnv, "SERVER_TLS_PORT" :> "9" }],
    [name |-> "Odd", type |-> TypeOdd, opts |-> NoOptions,
     tokens |-> {"--sizes", "3,4", "-n", "--timeout"},
     envs |-> { NoEnv, "SIZES" :> "1,2", ("TIMEOUT" :> "7") @@ ("NAME" :> "n") }],
    [name |-> "Dropped", type |-> TypeDropped, opts |-> Options(TRUE, TRUE, ""),
     tokens |-> {"--mode", "x"},
     envs |-> { NoEnv, ("MODE" :> "prod") @@ ("TOKEN" :> "t") }],
    [name |-> "Integers", type |-> TypeIntegers, opts |-> NoOptions,
     tokens |-> {"--int64", "3", "--uint64", "-1"},
     envs |-> { NoEnv,
                ("INT8_VAL" :> "-128") @@ ("UINT_VAL" :> "200"),
                ("INT8_VAL" :> "300") @@ ("UINT64_VAL" :> "-1")
                  @@ ("INT64_VAL" :> "9223372036854775808") }],
    [name |-> "Floats", type |-> TypeFloats, opts |-> NoOptions,
     tokens |-> {"-r", "1e400", "--percentage=1e39", "-p=2.50"},
     envs |-> { NoEnv,
                "RATE" :> "1e400",
                ("PERCENTAGE" :> "-1e39") @@ ("PRECISION" :> "1e-400"),
                ("RATE" :> "-1e400") @@ ("PERCENTAGE" :> "1e-46") }],
    [name |-> "Unflagged", type |-> TypeUnflagged, opts |-> Options(FALSE, TRUE, ""),
     tokens |-> {"x"},
     envs |-> { NoEnv, ("S" :> "s") @@ ("I" :> "x"), ("S" :> "s") @@ ("I" :> "7") }],
    [name |-> "Slices", type |-> TypeSlices, opts |-> NoOptions,
     tokens |-> {"--hosts", "a, b ,c", "--ports=x,,x", "--hosts="},
     envs |-> { NoEnv, ("HOSTS" :> " h1 ,h2") @@ ("PORTS" :> "80"), "HOSTS" :> "a, b ,c" }] }

\* the cases in which the caller also passes a record it has filled
FilledCases == {"Odd", "Dropped", "NoAutoEnv", "Short", "Deep"}

\* the records passed to Parse in a case
InitialRecords(c) ==
  IF c.name \in FilledCases THEN {ZeroRecord(c.type), FilledRecord(c.type)}
  ELSE {ZeroRecord(c.type)}

\* the command lines of at most MaxArgs tokens over an alphabet
ArgSeqs(tokens) == UNION { [1..n -> tokens] : n \in 0..MaxArgs }

\* the longer command lines of a case: in Simple, both aliases of the string
\* Host and both aliases of the switch Debug, each pair with two values
Lines(c) ==
  IF c.name = "Simple" THEN {<<"--host=a", "-H=b", "--debug=false", "-d">>} ELSE {}

(***************************************************************************)
(* State                                                                   *)
(***************************************************************************)

VARIABLES
  typ,            \* the type of the record passed to Parse
  opts,           \* the parser's options
  osArgs,         \* os.Args[1:]
  env,            \* the process environment
  fields,         \* p.fields
  formal,         \* p.flagSet: the registered flags
  actual,         \* p.flagSet: the names of the flags that were set
  args,           \* p.flagSet: the tokens not yet parsed
  flagValues,     \* p.flagValues
  boolFlags,      \* p.boolFlags, each name with the value its pointer holds
  showHelp,       \* p.showHelp
  record,         \* the target record: the value of every leaf, by path
  missingFields,  \* the local of applyValues
  idx,            \* the position of the applyValues loop in p.fields
  pc,             \* the step of Parse that runs next
  result,         \* how Parse ended: returned nil, an error, exit(0), panic
  writes,         \* the assignments made, in order: descriptor, path, value and
                  \* the record variable written
  lastFlag,       \* the flag parseOne handled last: token, name, value, handler
  stdout,         \* the lines PrintHelp has printed
  run,            \* 1 in the first call of Parse, 2 in the second
  first,          \* how the first call ended, once the second has started
  before,         \* the record as it was passed to the call of Parse
  seen,           \* the flags the call has parsed, in token order: name and value
  config,         \* the record variable passed to the call: cfg1, or cfg2 when
                  \* the second call is given another variable than the first
  other,          \* the record variable the call was not given, once there are two
  helpCall        \* the caller's PrintHelp or GetHelp after Parse: what it returned

vars == <<typ, opts, osArgs, env, fields, formal, actual, args, flagValues, boolFlags,
          showHelp, record, missingFields, idx, pc, result, writes, lastFlag, stdout,
          run, first, before, seen, config, other, helpCall>>

NoResult == [kind |-> "none", msg |-> ""]

NoFlag ==
  [tok |-> "", name |-> "", value |-> "", hasValue |-> FALSE, kind |-> "", err |-> ""]

\* the caller has not asked the parser for the help text
NoHelpCall == [how |-> "none", text |-> "", panic |-> ""]

\* no call of Parse has ended yet
NoFirst == [result |-> NoResult, record |-> <<>>]

FlagSeen(r) ==
  [tok |-> r.tok, name |-> r.name, value |-> r.value, hasValue |-> r.hasValue,
   kind |-> r.kind, err |-> r.err]

\* NewParser(opts...) followed by the call Parse(&cfg) with cfg a zero
\* record or, in the cases that say so, a record the caller has filled
Init ==
  \E c \in Cases :
    \E as \in ArgSeqs(c.tokens) \cup Lines(c) :
      \E e \in c.envs, rec \in InitialRecords(c) :
        /\ typ = c.type
        /\ opts = c.opts
        /\ osArgs = as
        /\ env = e
        /\ fields = <<>>
        /\ formal = HelpFlags
        /\ actual = {}
        /\ args = <<>>
        /\ flagValues = NoEnv
        /\ boolFlags = [n \in {} |-> FALSE]
        /\ showHelp = FALSE
        /\ record = rec
        /\ before = rec
        /\ config = "cfg1"
        /\ other = <<>>
        /\ seen = <<>>
        /\ helpCall = NoHelpCall
        /\ missingFields = <<>>
        /\ idx = 0
        /\ pc = "walk"
        /\ result = NoResult
        /\ writes = <<>>
        /\ lastFlag = NoFlag
        /\ stdout = <<>>
        /\ run = 1
        /\ first = NoFirst

(***************************************************************************)
(* Parser.Parse                                                            *)
(***************************************************************************)

\* Step 1: p.walkStruct(reflect.ValueOf(config).Elem(), "")
Walk ==
  /\ pc = "walk"
  /\ fields' = fields \o walkStruct(config, typ, "", opts)
  /\ pc' = "register"
  /\ UNCHANGED <<typ, opts, osArgs, env, run, first, before, config, other, seen, helpCall, stdout, formal, actual, args, flagValues, boolFlags,
                 showHelp, record, missingFields, idx, result, writes, lastFlag>>

\* Step 2: p.registerFlags(); a rejected flag name panics
Register ==
  /\ pc = "register"
  /\ \E r \in {registerFlags([formal |-> formal, boolFlags |-> boolFlags, panic |-> ""],
                               fields)} :
        /\ formal' = r.formal
        /\ boolFlags' = r.boolFlags
        /\ IF r.panic # ""
           THEN /\ pc' = "done"
                /\ result' = [kind |-> "panic", msg |-> r.panic]
                /\ args' = args
           ELSE /\ pc' = "parse"
                /\ result' = result
                /\ args' = osArgs
  /\ UNCHANGED <<typ, opts, osArgs, env, run, first, before, config, other, seen, helpCall, stdout, fields, actual, flagValues, showHelp, record,
                 missingFields, idx, writes, lastFlag>>

\* Step 3, one flag: parseOne saw a registered flag and its handler accepted
ParseFlag ==
  /\ pc = "parse"
  /\ \E r \in {parseOne(args, formal)} :
        /\ r.status = "flag"
        /\ args' = r.rest
        /\ actual' = actual \cup {r.name}
        /\ showHelp' = IF r.kind = "help" THEN ParseBool(r.value).val ELSE showHelp
        /\ boolFlags' = IF r.kind = "bool"
                        THEN [boolFlags EXCEPT ![r.name] = ParseBool(r.value).val]
                        ELSE boolFlags
        /\ flagValues' = IF r.kind \in {"string", "int", "float", "slice"}
                         THEN (formal[r.name].primary :> r.value) @@ flagValues
                         ELSE flagValues
        /\ lastFlag' = FlagSeen(r)
        /\ seen' = Append(seen, [name |-> r.name, value |-> r.value])
  /\ UNCHANGED <<typ, opts, osArgs, env, run, first, before, config, other, helpCall, stdout, fields, formal, record, missingFields, idx, pc,
                 result, writes>>

\* Step 3, failure: parseOne returns an error and Parse returns it
ParseFail ==
  /\ pc = "parse"
  /\ \E r \in {parseOne(args, formal)} :
        /\ r.status = "fail"
        /\ args' = r.rest
        /\ showHelp' = IF r.kind = "help" THEN FALSE ELSE showHelp
        /\ boolFlags' = IF r.kind = "bool" THEN [boolFlags EXCEPT ![r.name] = FALSE]
                        ELSE boolFlags
        /\ lastFlag' = FlagSeen(r)
  /\ \E usage \in {PrintHelp(fields)} :
        /\ stdout' = stdout \o usage.out
        /\ result' = IF usage.panic # "" THEN [kind |-> "panic", msg |-> usage.panic]
                      ELSE [kind |-> "error", msg |-> lastFlag'.err]
  /\ pc' = "done"
  /\ UNCHANGED <<typ, opts, osArgs, env, run, first, before, config, other, seen, helpCall, fields, formal, actual, flagValues, record,
                 missingFields, idx, writes>>

\* Step 3, end: no token is left, or the next one is not a flag, or it is "--"
ParseEnd ==
  /\ pc = "parse"
  /\ \E r \in {parseOne(args, formal)} :
        /\ r.status = "end"
        /\ args' = r.rest
  /\ pc' = "help"
  /\ UNCHANGED <<typ, opts, osArgs, env, run, first, before, config, other, seen, helpCall, stdout, fields, formal, actual, flagValues, boolFlags,
                 showHelp, record, missingFields, idx, result, writes, lastFlag>>

\* Parse without the help check
CheckHelp_continue ==
  /\ pc = "help"
  /\ pc' = "visit"
  /\ UNCHANGED <<typ, opts, osArgs, env, run, first, before, config, other, seen, helpCall, stdout, fields, formal, actual, args, flagValues,
                 boolFlags, showHelp, record, missingFields, idx, result, writes, lastFlag>>

\* if p.showHelp { p.PrintHelp(); os.Exit(0) }
CheckHelp ==
  /\ pc = "help"
  /\ IF showHelp
     THEN \E help \in {PrintHelp(fields)} :
            /\ stdout' = stdout \o help.out
            /\ result' = IF help.panic # "" THEN [kind |-> "panic", msg |-> help.panic]
                          ELSE [kind |-> "help", msg |-> ""]
            /\ pc' = "done"
     ELSE /\ result' = result
          /\ pc' = "visit"
          /\ stdout' = stdout
  /\ UNCHANGED <<typ, opts, osArgs, env, run, first, before, config, other, seen, helpCall, fields, formal, actual, args, flagValues,
                 boolFlags, showHelp, record, missingFields, idx, writes, lastFlag>>

\* p.flagSet.Visit(...): the boolean flags that were set are recorded
VisitBoolFlags ==
  /\ pc = "visit"
  /\ flagValues' = visitFlags(flagValues, SortedNames(actual), fields, boolFlags)
  /\ missingFields' = <<>>
  /\ idx' = 1
  /\ pc' = "apply"
  /\ UNCHANGED <<typ, opts, osArgs, env, run, first, before, config, other, seen, helpCall, stdout, fields, formal, actual, args, boolFlags,
                 showHelp, record, result, writes, lastFlag>>

\* the loop of applyValues recording a coercion failure and going on
ApplyField_continue ==
  /\ pc = "apply"
  /\ idx <= Len(fields)
  /\ \E field \in {fields[idx]} :
     \E win \in {finalValue(field, flagValues, env)} :
     \E set \in {setFieldValue(field, win.value)} :
        /\ missingFields' = IF (field.Required /\ ~win.hasValue)
                               \/ (win.hasValue /\ set.err # "")
                            THEN Append(missingFields, missingEntry(field))
                            ELSE missingFields
        /\ IF win.hasValue /\ set.assigned
           THEN /\ record' = IF field.Value = config
                              THEN [record EXCEPT ![field.FieldPath] = set.val]
                              ELSE record
                /\ other' = IF field.Value = config
                             THEN other
                             ELSE [other EXCEPT ![field.FieldPath] = set.val]
                /\ writes' = Append(writes, [idx |-> idx, path |-> field.FieldPath,
                                             val |-> set.val, to |-> field.Value])
           ELSE UNCHANGED <<record, other, writes>>
  /\ idx' = idx + 1
  /\ UNCHANGED <<typ, opts, osArgs, env, run, first, before, config, seen, helpCall, stdout, fields, formal, actual, args, flagValues,
                 boolFlags, showHelp, pc, result, lastFlag>>

\* Step 4, one iteration of the loop of applyValues
ApplyField ==
  /\ pc = "apply"
  /\ idx <= Len(fields)
  /\ \E field \in {fields[idx]} :
     \E win \in {finalValue(field, flagValues, env)} :
     \E set \in {setFieldValue(field, win.value)} :
        /\ missingFields' = IF field.Required /\ ~win.hasValue
                            THEN Append(missingFields, missingEntry(field))
                            ELSE missingFields
        /\ IF win.hasValue /\ set.err # ""
           THEN /\ result' = [kind |-> "error", msg |-> settingError(field, set.err)]
                /\ pc' = "done"
                /\ idx' = idx
                /\ UNCHANGED <<record, other, writes>>
           ELSE /\ result' = result
                /\ pc' = pc
                /\ idx' = idx + 1
                /\ IF win.hasValue /\ set.assigned
                   THEN /\ record' = IF field.Value = config
                                      THEN [record EXCEPT ![field.FieldPath] = set.val]
                                      ELSE record
                        /\ other' = IF field.Value = config
                                     THEN other
                                     ELSE [other EXCEPT ![field.FieldPath] = set.val]
                        /\ writes' = Append(writes, [idx |-> idx, path |-> field.FieldPath,
                                                     val |-> set.val, to |-> field.Value])
                   ELSE UNCHANGED <<record, other, writes>>
  /\ UNCHANGED <<typ, opts, osArgs, env, run, first, before, seen, config, helpCall, stdout, fields, formal, actual, args, flagValues,
                 boolFlags, showHelp, lastFlag>>

\* Step 4, after the loop: the aggregated error, or nil
ApplyFinish ==
  /\ pc = "apply"
  /\ idx > Len(fields)
  /\ result' = IF Len(missingFields) > 0
               THEN [kind |-> "error", msg |-> missingError(missingFields)]
               ELSE [kind |-> "ok", msg |-> ""]
  /\ pc' = "done"
  /\ UNCHANGED <<typ, opts, osArgs, env, run, first, before, config, other, seen, helpCall, stdout, fields, formal, actual, args, flagValues,
                 boolFlags, showHelp, record, missingFields, idx, writes, lastFlag>>

\* the text GetHelp returns: what PrintHelp wrote to the pipe, read once
\* into a buffer of 4096 bytes
GetHelpText(lines) ==
  IF lines = <<>> THEN ""
  ELSE SubSeq(Join(lines, "\n") \o "\n", 1,
              IF Len(Join(lines, "\n")) + 1 > 4096 THEN 4096
              ELSE Len(Join(lines, "\n")) + 1)

\* the caller, holding the parser after Parse has returned (NewParser, or
\* ParseWithHelp), calls p.PrintHelp(), which prints to standard output, or
\* p.GetHelp(), which returns what PrintHelp prints; a panic of PrintHelp
\* reaches the caller
CallHelp ==
  /\ pc = "done"
  /\ result.kind \in {"ok", "error"}
  /\ helpCall.how = "none"
  /\ \E how \in {"PrintHelp", "GetHelp"} :
     \E usage \in {PrintHelp(fields)} :
        /\ stdout' = IF how = "PrintHelp" THEN stdout \o usage.out ELSE stdout
        /\ helpCall' = [how |-> how,
                        text |-> IF how = "GetHelp" /\ usage.panic = ""
                                 THEN GetHelpText(usage.out) ELSE "",
                        panic |-> usage.panic]
  /\ UNCHANGED <<typ, opts, osArgs, env, run, first, before, config, other, seen, fields, formal, actual, args,
                 flagValues, boolFlags, showHelp, record, missingFields, idx, pc, result,
                 writes, lastFlag>>

\* Parse called a second time with the same command line and environment,
\* after the first call returned: the package's Parse builds a new parser
\* with NewParser(), a caller's second p.Parse runs on the same parser, whose
\* fields, flag set and maps Parse never resets. The caller passes the
\* variable of the first call as that call left it, the same variable set
\* back to what the first call received, or a second variable holding what
\* the first call received: the descriptors of the first call stay bound to
\* the first variable
ParseAgain ==
  /\ pc = "done"
  /\ run = 1
  /\ Len(osArgs) <= MaxArgsAgain
  /\ result.kind \in {"ok", "error"}
  /\ helpCall.panic = ""
  /\ first' = [result |-> result, record |-> record]
  /\ run' = 2
  /\ \E given \in {"kept", "reset", "second"} :
       /\ record' = IF given = "kept" THEN record ELSE before
       /\ before' = IF given = "kept" THEN record ELSE before
       /\ config' = IF given = "second" THEN "cfg2" ELSE config
       /\ other' = IF given = "second" THEN record ELSE other
  /\ \E parser \in {"new", "same"} :
       IF parser = "new"
       THEN /\ fields' = <<>>
            /\ formal' = HelpFlags
            /\ actual' = {}
            /\ args' = <<>>
            /\ flagValues' = NoEnv
            /\ boolFlags' = [n \in {} |-> FALSE]
            /\ showHelp' = FALSE
       ELSE UNCHANGED <<fields, formal, actual, args, flagValues, boolFlags, showHelp>>
  /\ missingFields' = <<>>
  /\ idx' = 0
  /\ pc' = "walk"
  /\ result' = NoResult
  /\ writes' = <<>>
  /\ lastFlag' = NoFlag
  /\ seen' = <<>>
  /\ helpCall' = NoHelpCall
  /\ UNCHANGED <<typ, opts, osArgs, env, stdout>>

Next ==
  \/ Walk
  \/ Register
  \/ ParseFlag
  \/ ParseFail
  \/ ParseEnd
  \/ CheckHelp
  \/ VisitBoolFlags
  \/ ApplyField
  \/ ApplyFinish
  \/ CallHelp
  \/ ParseAgain

Spec == Init /\ [][Next]_vars

(***************************************************************************)
(* Properties of the merge pass                                            *)
(***************************************************************************)

\* the non-empty value recorded for the field's primary CLI name, or ""
CliValue(f) ==
  IF f.CliName # "" /\ f.CliName \in DOMAIN flagValues THEN flagValues[f.CliName] ELSE ""

\* the non-empty value the environment holds under the field's envName, or ""
EnvValue(f) == IF f.EnvName # "" THEN Getenv(env, f.EnvName) ELSE ""

\* the field is of one of the five kinds of a descriptor: string, integer,
\* floating-point, boolean, string-list
SpecKind(f) ==
  \/ f.Kind \in {"string", "int", "float32", "float64", "bool"}
  \/ f.Kind = "slice" /\ f.Elem = "string"

\* the merge pass has gone past descriptor k without a coercion failure
Decided(k) == k \in 1..Len(fields) /\ k < idx

\* the value held by the field descriptor f is bound to: a member of the
\* record the call was given or, for a descriptor left by an earlier call
\* that was given another variable, of that variable
Stored(f) == IF f.Value = config THEN record[f.FieldPath] ELSE other[f.FieldPath]

\* the value that field held when the call started
StoredBefore(f) ==
  IF f.Value = config THEN before[f.FieldPath] ELSE first.record[f.FieldPath]

\* descriptor k was written, once, with the value v, and its field holds it
Assigned(k, v) ==
  /\ \E i \in 1..Len(writes) :
       /\ writes[i].idx = k
       /\ writes[i].path = fields[k].FieldPath
       /\ writes[i].to = fields[k].Value
       /\ writes[i].val = v
  /\ Cardinality({i \in 1..Len(writes) : writes[i].idx = k}) = 1
  /\ Stored(fields[k]) = v

\* descriptor k was not written
NotWritten(k) == \A i \in 1..Len(writes) : writes[i].idx # k

Coerced(f, raw) == setFieldValue(f, raw).val

\* C1 as stated: every descriptor with a non-empty CLI value recorded under
\* its primary name is assigned the coercion of that value, whatever its kind.
CliWinsEveryKind ==
  \A k \in 1..Len(fields) :
    (Decided(k) /\ CliValue(fields[k]) # "")
      => Assigned(k, Coerced(fields[k], CliValue(fields[k])))

\* C1: a descriptor of kind string, int, float, bool or list of strings with
\* a non-empty CLI value recorded under its primary name is assigned the
\* coercion of that value, whatever the environment and the default hold and
\* wherever it is declared; a descriptor of another kind with a recorded CLI
\* value is a slice, is not written and keeps the value it held before the
\* call.
CliWins ==
  \A k \in 1..Len(fields) :
    (Decided(k) /\ CliValue(fields[k]) # "")
      => IF SpecKind(fields[k])
         THEN Assigned(k, Coerced(fields[k], CliValue(fields[k])))
         ELSE /\ fields[k].Kind = "slice"
              /\ NotWritten(k)
              /\ Stored(fields[k]) = StoredBefore(fields[k])

\* a descriptor that is not the first one got its CLI value although the
\* environment and the default both held another value
CliWinsWitness ==
  \E k \in 2..Len(fields) :
    /\ Decided(k)
    /\ SpecKind(fields[k])
    /\ CliValue(fields[k]) # ""
    /\ EnvValue(fields[k]) # ""
    /\ fields[k].DefaultVal # ""
    /\ EnvValue(fields[k]) # CliValue(fields[k])
    /\ fields[k].DefaultVal # CliValue(fields[k])
    /\ Stored(fields[k]) = Coerced(fields[k], CliValue(fields[k]))

\* C2: every descriptor without a non-empty CLI value is assigned the
\* coercion of its environment value when envName is set and the lookup is
\* non-empty, whatever the default; otherwise the coercion of its default
\* when that is non-empty.
EnvThenDefault ==
  \A k \in 1..Len(fields) :
    (Decided(k) /\ CliValue(fields[k]) = "")
      => IF EnvValue(fields[k]) # ""
         THEN Assigned(k, Coerced(fields[k], EnvValue(fields[k])))
         ELSE fields[k].DefaultVal # ""
                => Assigned(k, Coerced(fields[k], fields[k].DefaultVal))

\* a required descriptor for which no source yields a non-empty value
Lacking(f) ==
  f.Required /\ CliValue(f) = "" /\ EnvValue(f) = "" /\ f.DefaultVal = ""

LackingSet == {k \in 1..Len(fields) : Lacking(fields[k])}

\* the merge pass reached the end of the descriptor list
MergeCompleted == pc = "done" /\ idx > Len(fields)

\* number of occurrences of sub in s
RECURSIVE CountOcc(_, _)
CountOcc(s, sub) ==
  IF Len(s) < Len(sub) THEN 0
  ELSE (IF HasPrefix(s, sub) THEN 1 ELSE 0) + CountOcc(From(s, 2), sub)

\* C3: when the merge pass reaches the end of the descriptor list, resolution
\* succeeds exactly when no required descriptor lacks a value; otherwise it
\* fails with one error that has one line per lacking required descriptor and
\* lists each of them exactly once.
MissingAggregated ==
  MergeCompleted =>
    /\ result.kind \in {"ok", "error"}
    /\ result.kind = "ok" <=> LackingSet = {}
    /\ LackingSet # {} =>
         /\ CountOcc(result.msg, "\n  - ") = Cardinality(LackingSet)
         /\ \A k \in LackingSet :
              CountOcc(result.msg, "\n  - " \o fields[k].FieldPath \o " (") = 1

\* a completed merge pass with two lacking required descriptors and a
\* descriptor assigned between them
MissingAggregatedWitness ==
  /\ MergeCompleted
  /\ result.kind = "error"
  /\ \E j, k \in LackingSet : \E i \in 1..Len(writes) : j < writes[i].idx /\ writes[i].idx < k

\* the line of a lacking descriptor: path, then the sources it has
ExpectedLine(f) ==
  f.FieldPath \o " ("
  \o (IF f.EnvName # "" THEN "env: " \o f.EnvName ELSE "")
  \o (IF f.EnvName # "" /\ f.CliName # "" THEN ", " ELSE "")
  \o (IF f.CliName # "" THEN "flag: --" \o f.CliName ELSE "")
  \o ")"

RECURSIVE ExpectedReport(_)
ExpectedReport(k) ==
  IF k > Len(fields) THEN ""
  ELSE (IF Lacking(fields[k]) THEN "\n  - " \o ExpectedLine(fields[k]) ELSE "")
       \o ExpectedReport(k + 1)

\* C4: the aggregated error is "missing required fields:" followed by one
\* line "- path (env: NAME, flag: --name)" per violation in descriptor order,
\* without the env clause for a descriptor that has no envName and without
\* the flag clause for one that has no CLI name.
MissingFormat ==
  (MergeCompleted /\ result.kind = "error")
    => result.msg = "missing required fields:" \o ExpectedReport(1)

\* the report holds a line without env clause and a line without flag clause
MissingFormatWitness ==
  /\ MergeCompleted
  /\ result.kind = "error"
  /\ \E j, k \in LackingSet : fields[j].EnvName = "" /\ fields[k].CliName = ""

(***************************************************************************)
(* Properties of empty values, failures and the help switch                *)
(***************************************************************************)

\* the raw value that wins for a descriptor, "" when no source yields one
WinningRaw(f) ==
  IF CliValue(f) # "" THEN CliValue(f)
  ELSE IF EnvValue(f) # "" THEN EnvValue(f)
  ELSE f.DefaultVal

\* an empty string was recorded for the descriptor on the command line
CliEmpty(f) ==
  f.CliName # "" /\ f.CliName \in DOMAIN flagValues /\ flagValues[f.CliName] = ""

\* the descriptor's environment variable is set to the empty string
EnvEmpty(f) == f.EnvName \in DOMAIN env /\ env[f.EnvName] = ""

\* Parse returned the error of flagSet.Parse: the merge pass never started
ParseFailed == pc = "done" /\ result.kind = "error" /\ idx = 0

\* the record is as it was passed to Parse
Untouched == writes = <<>> /\ record = before

\* flagSet.Parse failed and PrintHelp, called as the flag set's usage
\* function, crashed before the error could be returned
UsageCrashed == pc = "done" /\ result.kind = "panic" /\ lastFlag.err # ""

\* flagSet.Parse failed with the error lastFlag.err: Parse returned it after
\* the usage text was printed, or printing the usage text crashed
ParseRejected ==
  \/ ParseFailed /\ result.msg = lastFlag.err /\ PrintHelp(fields).panic = ""
  \/ UsageCrashed /\ PrintHelp(fields).panic # ""

\* the command line gave the empty string to a flag of a descriptor
EmptyCliSupplied ==
  /\ lastFlag.hasValue
  /\ lastFlag.value = ""
  /\ lastFlag.kind \in {"string", "int", "float", "bool", "slice"}

\* a processed descriptor with an empty string at a source resolves as if
\* that source held nothing
EmptyFallsThrough ==
  \A k \in 1..Len(fields) :
    (Decided(k) /\ SpecKind(fields[k]) /\ (CliEmpty(fields[k]) \/ EnvEmpty(fields[k])))
      => IF WinningRaw(fields[k]) # ""
         THEN Assigned(k, Coerced(fields[k], WinningRaw(fields[k])))
         ELSE /\ NotWritten(k)
              /\ fields[k].Required
                   => \E i \in 1..Len(missingFields) :
                        missingFields[i] = ExpectedLine(fields[k])

\* C5 as stated: an empty string has the effect of supplying nothing at each
\* of the three sources, so an empty CLI value falls through and never makes
\* the resolution fail.
EmptyIsAbsentEverywhere ==
  /\ EmptyFallsThrough
  /\ EmptyCliSupplied => ~ParseFailed

\* C5 amended: at the environment and default sources, and for a CLI value
\* recorded for a string or string-list flag, an empty string has the effect
\* of supplying nothing (the next source is used; a required field with only
\* empty values is reported missing); an empty CLI value given to an integer,
\* floating-point or boolean flag fails CLI parsing instead (the error is
\* returned, unless printing the usage text crashes).
EmptyIsAbsent ==
  /\ EmptyFallsThrough
  /\ (EmptyCliSupplied /\ lastFlag.kind \in {"string", "slice"})
       => ~ParseFailed /\ ~UsageCrashed
  /\ (EmptyCliSupplied /\ lastFlag.kind \in {"int", "float", "bool"})
       => ParseRejected /\ Untouched

\* a required descriptor given "" on the command line and "" in the
\* environment is reported missing at the end of the merge pass
EmptyIsAbsentWitness ==
  /\ MergeCompleted
  /\ \E k \in LackingSet :
       /\ CliEmpty(fields[k])
       /\ EnvEmpty(fields[k])
       /\ Contains(result.msg, ExpectedLine(fields[k]))

\* coercion of the winning value of descriptor k fails
FailsCoercion(f) == WinningRaw(f) # "" /\ setFieldValue(f, WinningRaw(f)).err # ""

\* descriptor k is the first whose winning value fails coercion
FirstFailure(k) ==
  /\ k \in 1..Len(fields)
  /\ FailsCoercion(fields[k])
  /\ \A j \in 1..(k - 1) : ~FailsCoercion(fields[j])

\* descriptors i and j are bound to the same field of the same record
\* variable: j was left by an earlier call given the variable of this call
SameStorage(i, j) ==
  fields[i].FieldPath = fields[j].FieldPath /\ fields[i].Value = fields[j].Value

\* C6: when coercion of the winning value of descriptor k fails in the merge
\* pass, the pass never goes beyond k and resolution returns that coercion
\* error alone; no descriptor after k is assigned (its field holds what it
\* held before the call, unless a descriptor before k is bound to the same
\* field) and the violations recorded before k are not reported.
FailFast ==
  \A k \in 1..Len(fields) :
    (idx >= 1 /\ FirstFailure(k)) =>
      /\ idx <= k
      /\ \A i \in 1..Len(writes) : writes[i].idx < k
      /\ \A j \in k..Len(fields) :
           (\A i \in 1..(k - 1) : ~SameStorage(i, j))
             => Stored(fields[j]) = StoredBefore(fields[j])
      /\ pc = "done" =>
           /\ result.kind = "error"
           /\ result.msg = "error setting field " \o fields[k].FieldPath \o ": "
                           \o setFieldValue(fields[k], WinningRaw(fields[k])).err
           /\ ~Contains(result.msg, "missing required fields")

\* resolution ended at a failing descriptor that is not the last one, with a
\* violation already recorded and a later descriptor that had a value
FailFastWitness ==
  \E k \in 1..Len(fields) :
    /\ idx >= 1
    /\ pc = "done"
    /\ FirstFailure(k)
    /\ missingFields # <<>>
    /\ \E j \in (k + 1)..Len(fields) : WinningRaw(fields[j]) # ""

\* the descriptor that registered the flag name
OwnerOf(name) ==
  CHOOSE k \in 1..Len(fields) :
    /\ fields[k].CliName = formal[name].primary
    /\ \E i \in 1..Len(fields[k].CliNames) : fields[k].CliNames[i] = name

\* flagSet.Parse failed because the token given to a flag is not of its kind
CliKindFailure ==
  /\ ParseFailed \/ UsageCrashed
  /\ lastFlag.hasValue
  /\ lastFlag.kind \in {"int", "float", "bool"}

\* applyValues failed at descriptor idx because its winning value is not of
\* its kind
MergeKindFailure == pc = "done" /\ result.kind = "error" /\ idx \in 1..Len(fields)

\* C7 as stated: the error of a value that cannot be parsed as the field's
\* kind contains the field path and the raw string, whether the value came
\* from a CLI token, the environment or the default.
KindErrorNamesPath ==
  /\ MergeKindFailure =>
       /\ Contains(result.msg, fields[idx].FieldPath)
       /\ Contains(result.msg, WinningRaw(fields[idx]))
  /\ CliKindFailure =>
       /\ Contains(result.msg, fields[OwnerOf(lastFlag.name)].FieldPath)
       /\ Contains(result.msg, lastFlag.value)

\* C7 amended: a value from the environment or the default that cannot be
\* parsed as the field's kind fails with "error setting field <path>: ..."
\* holding the field path and the quoted raw string; a CLI token that cannot
\* be parsed fails CLI parsing with an error holding the flag name as typed
\* and the quoted token, not the field path (the error is returned, unless
\* printing the usage text crashes).
KindErrorNamesSource ==
  /\ MergeKindFailure =>
       /\ HasPrefix(result.msg, "error setting field " \o fields[idx].FieldPath \o ": ")
       /\ Contains(result.msg, Quote(WinningRaw(fields[idx])))
       /\ CliValue(fields[idx]) = ""
  /\ CliKindFailure =>
       /\ ParseRejected
       /\ Contains(lastFlag.err, "-" \o lastFlag.name \o ": ")
       /\ Contains(lastFlag.err, Quote(lastFlag.value))
       /\ \A k \in 1..Len(fields) :
            Pos(fields[k].FieldPath, ".") > 0
              => ~Contains(lastFlag.err, fields[k].FieldPath)

\* resolution failed on a default that is not of the field's kind
KindErrorNamesSourceWitness ==
  /\ MergeKindFailure
  /\ CliValue(fields[idx]) = ""
  /\ EnvValue(fields[idx]) = ""
  /\ fields[idx].DefaultVal # ""

\* strings.HasSuffix
HasSuffix(s, suffix) ==
  /\ Len(s) >= Len(suffix)
  /\ SubSeq(s, Len(s) - Len(suffix) + 1, Len(s)) = suffix

\* the token is not a number of the handler's kind
NotOfKind(kind, s) ==
  IF kind = "int" THEN AtoiSyntaxErr(s) \/ AtoiRangeErr(s)
  ELSE ParseFloat(s).err # ""

\* C8: a token given through any alias of an integer or floating-point
\* descriptor that does not parse as that kind fails the resolution during
\* CLI parsing with "invalid integer value: <token>" or "invalid float
\* value: <token>", before the merge pass starts and with the record
\* unmodified.
BadNumberFailsAtParse ==
  (lastFlag.kind \in {"int", "float"} /\ lastFlag.hasValue
     /\ NotOfKind(lastFlag.kind, lastFlag.value))
    => /\ ParseFailed
       /\ HasSuffix(result.msg,
                    (IF lastFlag.kind = "int" THEN "invalid integer value: "
                     ELSE "invalid float value: ") \o lastFlag.value)
       /\ Untouched

\* a token that is not a float was given through a secondary alias
BadNumberFailsAtParseWitness ==
  /\ lastFlag.kind = "float"
  /\ lastFlag.hasValue
  /\ NotOfKind("float", lastFlag.value)
  /\ lastFlag.name # formal[lastFlag.name].primary
  /\ pc = "done"

\* the token has the form of a flag: at least two characters, the first '-'
DashForm(s) == Len(s) >= 2 /\ Ch(s, 1) = "-"

\* the command line holds, before any terminator "--", a token that is neither
\* a registered flag nor the value of a registered non-boolean flag
RECURSIVE HasStray(_, _)
HasStray(as, formalNow) ==
  IF as = <<>> THEN FALSE
  ELSE
    LET s == Head(as)
        t == FlagToken(s)
    IN IF s = "--" THEN FALSE
       ELSE IF ~DashForm(s) \/ t.bad \/ t.name \notin DOMAIN formalNow THEN TRUE
       ELSE IF formalNow[t.name].kind \notin {"bool", "help"} /\ ~t.hasValue
       THEN (IF Len(as) >= 2 THEN HasStray(Tail(Tail(as)), formalNow) ELSE FALSE)
       ELSE HasStray(Tail(as), formalNow)

\* flagSet.Parse returned without an error
ParseEnded ==
  \/ pc \in {"help", "visit", "apply"}
  \/ pc = "done" /\ result.kind \in {"ok", "help"}
  \/ pc = "done" /\ idx >= 1
  \/ /\ pc = "done" /\ result.kind = "panic" /\ showHelp /\ lastFlag.err = ""
     /\ result.msg = "strings: negative Repeat count"

\* the number of tokens flagSet.Parse consumed
Consumed == Len(osArgs) - Len(args)

\* C9 as stated: a token that is neither a registered flag nor the value of
\* a registered non-boolean flag makes the resolution fail with a parse error
\* and nothing is assigned.
StrayTokenFails ==
  (pc = "done" /\ result.kind \notin {"panic", "help"} /\ HasStray(osArgs, formal))
    => ParseFailed /\ Untouched

\* C9 amended: a token in flag position that begins with '-' and is malformed
\* or names no registered flag fails CLI parsing (the parse error is
\* returned, unless printing the usage text crashes) and nothing is assigned; a token in flag position that does not begin with '-'
\* (or the terminator "--") ends CLI parsing without an error, and the tokens
\* from it on are ignored: no flag among them is set.
StrayTokenRule ==
  /\ (lastFlag.tok # ""
        /\ (FlagToken(lastFlag.tok).bad
              \/ FlagToken(lastFlag.tok).name \notin DOMAIN formal))
       => /\ ParseRejected
          /\ lastFlag.err =
               (IF FlagToken(lastFlag.tok).bad THEN "bad flag syntax: " \o lastFlag.tok
                ELSE "flag provided but not defined: -" \o FlagToken(lastFlag.tok).name)
          /\ Untouched
  /\ (ParseEnded /\ args # <<>>)
       => /\ ~DashForm(Head(args)) \/ (Consumed >= 1 /\ osArgs[Consumed] = "--")
          /\ \A name \in actual :
               \E i \in 1..Consumed : FlagToken(osArgs[i]).name = name

\* resolution succeeded although a registered flag followed a token that is
\* not a flag: the flag was not set
StrayTokenRuleWitness ==
  /\ pc = "done"
  /\ result.kind = "ok"
  /\ args # <<>>
  /\ ~DashForm(Head(args))
  /\ \E i \in 2..Len(args) :
       /\ DashForm(args[i])
       /\ FlagToken(args[i]).name \in DOMAIN formal
       /\ FlagToken(args[i]).name \notin actual

\* the command line holds the help switch
HelpToken == \E i \in 1..Len(osArgs) : osArgs[i] \in {"--help", "-h"}

\* C10 as stated: whenever the tokens contain --help or -h, resolution ends
\* in the help outcome with no field assigned and no error, whatever the
\* other tokens are.
HelpAlwaysWins ==
  (pc = "done" /\ result.kind # "panic" /\ HelpToken)
    => result.kind = "help" /\ writes = <<>>

\* C10 amended: when CLI parsing ends without an error and has left the help
\* switch set, resolution goes to help rendering and stops there: no field
\* is assigned, no required-field check runs and no error is returned,
\* whatever the environment and the missing required fields; it ends in the
\* help outcome when the rendering completes, and the help outcome occurs
\* only so, with a help switch among the tokens parsed as flags.
HelpAfterParse ==
  /\ (ParseEnded /\ pc # "help" /\ showHelp)
       => /\ pc = "done"
          /\ result.kind = IF PrintHelp(fields).panic = "" THEN "help" ELSE "panic"
          /\ stdout = PrintHelp(fields).out
          /\ idx = 0
          /\ missingFields = <<>>
          /\ Untouched
  /\ result.kind = "help"
       => /\ showHelp
          /\ \E i \in 1..Consumed : FlagToken(osArgs[i]).name \in {"help", "h"}

\* the help outcome with a required field lacking a value and another flag
\* recorded before the switch
HelpAfterParseWitness ==
  /\ result.kind = "help"
  /\ LackingSet # {}
  /\ \E k \in 1..Len(fields) : CliValue(fields[k]) # ""

(***************************************************************************)
(* Boolean switches and aliases                                            *)
(***************************************************************************)

\* the flags flagSet.Parse handles on the command line as, in order
RECURSIVE ParsedFlags(_, _)
ParsedFlags(as, formalNow) ==
  LET r == parseOne(as, formalNow)
  IN IF r.status = "flag" THEN <<r>> \o ParsedFlags(r.rest, formalNow) ELSE <<>>

\* the positions in ParsedFlags at which an alias of the descriptor was given
Occurrences(f) ==
  {i \in 1..Len(ParsedFlags(osArgs, formal)) :
     \E j \in 1..Len(f.CliNames) : ParsedFlags(osArgs, formal)[i].name = f.CliNames[j]}

\* a boolean descriptor with CLI names
IsSwitch(f) == f.Kind = "bool" /\ hasFlags(f)

\* an alias of the descriptor was given bare, without =value
BareGiven(f) ==
  \E i \in Occurrences(f) : ~ParsedFlags(osArgs, formal)[i].hasValue

\* what the environment, else the default, makes of a boolean descriptor
SwitchFallback(f) ==
  IF EnvValue(f) # "" THEN ParseBool(EnvValue(f)).val
  ELSE IF f.DefaultVal # "" THEN ParseBool(f.DefaultVal).val
  ELSE StoredBefore(f)

\* Parse returned nil
Resolved == pc = "done" /\ result.kind = "ok"

\* C11 as stated: a boolean descriptor with CLI names resolves to true when
\* one of its aliases is given bare and to false when none of its aliases is
\* given.
SwitchPresenceDecides ==
  Resolved =>
    \A k \in 1..Len(fields) :
      IsSwitch(fields[k]) =>
        /\ BareGiven(fields[k]) => Stored(fields[k]) = TRUE
        /\ Occurrences(fields[k]) = {} => Stored(fields[k]) = FALSE

\* C11 amended: when resolution succeeds, a boolean descriptor with CLI names
\* resolves to true if its aliases are given on the command line and every
\* time bare; if none of its aliases is given it takes the value of its
\* environment variable, else of its default, and without both keeps the
\* value the record held before the call (false in a zero record).
SwitchRule ==
  Resolved =>
    \A k \in 1..Len(fields) :
      IsSwitch(fields[k]) =>
        /\ (Occurrences(fields[k]) # {}
              /\ \A i \in Occurrences(fields[k]) :
                   ~ParsedFlags(osArgs, formal)[i].hasValue)
             => Stored(fields[k]) = TRUE
        /\ Occurrences(fields[k]) = {}
             => Stored(fields[k]) = SwitchFallback(fields[k])

\* resolution succeeded with one switch given bare through a secondary alias,
\* its default being false, and another switch not given and true by default
SwitchRuleWitness ==
  /\ Resolved
  /\ \E k \in 1..Len(fields) :
       /\ IsSwitch(fields[k])
       /\ fields[k].DefaultVal = "false"
       /\ Occurrences(fields[k]) # {}
       /\ \A i \in Occurrences(fields[k]) :
            /\ ~ParsedFlags(osArgs, formal)[i].hasValue
            /\ ParsedFlags(osArgs, formal)[i].name # fields[k].CliName
       /\ Stored(fields[k]) = TRUE
  /\ \E k \in 1..Len(fields) :
       /\ IsSwitch(fields[k])
       /\ Occurrences(fields[k]) = {}
       /\ Stored(fields[k]) = TRUE

\* the CLI value the last given occurrence of the descriptor's aliases
\* carries, as its handler records it
LastGiven(f) ==
  LET r == ParsedFlags(osArgs, formal)[CHOOSE i \in Occurrences(f) :
                                        \A j \in Occurrences(f) : j <= i]
  IN IF f.Kind = "bool" THEN FormatBool(ParseBool(r.value).val) ELSE r.value

\* C12: a value supplied through any alias is recorded under the descriptor's
\* primary name only, and resolves as the same tokens written with the
\* primary name do: the descriptor's CLI value is that of the last occurrence
\* given on the command line, whichever alias each occurrence used.
AliasesAreOneIdentity ==
  (pc \in {"apply", "done"} /\ idx >= 1) =>
    /\ \A n \in DOMAIN flagValues : \E k \in 1..Len(fields) : fields[k].CliName = n
    /\ \A k \in 1..Len(fields) :
         (hasFlags(fields[k]) /\ HandlerKind(fields[k].Kind) # ""
            /\ Occurrences(fields[k]) # {})
           => CliValue(fields[k]) = LastGiven(fields[k])

(***************************************************************************)
(* The names of the descriptors                                           *)
(***************************************************************************)

\* the tags the record declares on the leaf at the path
RECURSIVE TagAt(_, _, _)
TagAt(members, pathPrefix, path) ==
  IF members = <<>> THEN NoTag
  ELSE LET m == Head(members)
           fieldPath == IF pathPrefix # "" THEN pathPrefix \o "." \o m.name ELSE m.name
       IN IF m.kind # "struct" /\ fieldPath = path THEN m.tag
          ELSE IF m.kind = "struct" /\ Len(path) > Len(fieldPath)
                  /\ SubSeq(path, 1, Len(fieldPath) + 1) = fieldPath \o "."
               THEN TagAt(m.members, fieldPath, path)
          ELSE TagAt(Tail(members), pathPrefix, path)

Declared(f) == TagAt(typ, "", f.FieldPath)

\* the walk has produced the descriptors
Walked == pc # "walk"

StartsWith(s, p) == Len(s) >= Len(p) /\ SubSeq(s, 1, Len(p)) = p

\* the letters, and each lower-case letter with its upper-case letter
LowerLetters == {SubSeq(Lower, j, j) : j \in 1..Len(Lower)}

UpperLetters == {SubSeq(Upper, j, j) : j \in 1..Len(Upper)}

CasePairs == {<<SubSeq(Lower, j, j), SubSeq(Upper, j, j)>> : j \in 1..Len(Lower)}

\* name is the path with each '.' replaced by '_' and each lower-case
\* letter by its upper-case letter
IsDerivedEnv(name, path) ==
  /\ Len(name) = Len(path)
  /\ \A i \in 1..Len(path) :
       LET c == SubSeq(path, i, i)
           d == SubSeq(name, i, i)
       IN IF c = "." THEN d = "_"
          ELSE IF c \in LowerLetters THEN <<c, d>> \in CasePairs
          ELSE d = c

\* name is the path with each '.' replaced by '-' and each upper-case
\* letter by its lower-case letter
IsDerivedFlag(name, path) ==
  /\ Len(name) = Len(path)
  /\ \A i \in 1..Len(path) :
       LET c == SubSeq(path, i, i)
           d == SubSeq(name, i, i)
       IN IF c = "." THEN d = "-"
          ELSE IF c \in UpperLetters THEN <<d, c>> \in CasePairs
          ELSE d = c

\* n is the environment name of the descriptor before the prefix: the one
\* its env tag declares, or the one derived from its path
NamedBy(f, n) ==
  IF Declared(f).env # "" THEN n = Declared(f).env ELSE IsDerivedEnv(n, f.FieldPath)

\* the descriptor's envName is its name before the prefix when that name
\* starts with the prefix, and the prefix followed by that name when not
PrefixedOnce(f) ==
  LET P == opts.envPrefix
      rest == SubSeq(f.EnvName, Len(P) + 1, Len(f.EnvName))
  IN /\ StartsWith(f.EnvName, P)
     /\ \/ NamedBy(f, f.EnvName)
        \/ NamedBy(f, rest) /\ ~StartsWith(rest, P)
     /\ (IF StartsWith(f.EnvName, P) THEN f.EnvName ELSE P \o f.EnvName) = f.EnvName

\* C13: with a non-empty prefix, every non-empty envName starts with the
\* prefix after the walk: it is the declared or derived name unchanged when
\* that name starts with the prefix, the prefix followed by it when not, and
\* the prefix rule applied to the envName gives the envName
PrefixAppliedOnce ==
  Walked /\ opts.envPrefix # "" =>
    \A k \in 1..Len(fields) : fields[k].EnvName # "" => PrefixedOnce(fields[k])

\* a finished parse under the prefix MYAPP_ of a record declaring MYAPP_HOST
\* and PORT, which read MYAPP_HOST and MYAPP_PORT
PrefixAppliedOnceWitness ==
  /\ Resolved /\ run = 1
  /\ opts.envPrefix = "MYAPP_"
  /\ \E k, l \in 1..Len(fields) :
       /\ Declared(fields[k]).env = "MYAPP_HOST" /\ fields[k].EnvName = "MYAPP_HOST"
       /\ Declared(fields[l]).env = "PORT" /\ fields[l].EnvName = "MYAPP_PORT"
       /\ "MYAPP_HOST" \in DOMAIN env /\ "MYAPP_PORT" \in DOMAIN env
       /\ CliValue(fields[k]) = "" /\ CliValue(fields[l]) = ""
       /\ Assigned(k, env["MYAPP_HOST"]) /\ Assigned(l, env["MYAPP_PORT"])

\* C14: without an env tag and with auto-env enabled, the envName before
\* the prefix is the path with every '.' replaced by '_', upper-cased;
\* without a flag tag and with auto-flag enabled, the single CLI name is the
\* path with every '.' replaced by '-', lower-cased
AutoNames ==
  Walked =>
    \A k \in 1..Len(fields) :
      LET f == fields[k]
          P == opts.envPrefix
      IN /\ Declared(f).env = "" /\ ~opts.disableAutoEnv =>
              \/ IsDerivedEnv(f.EnvName, f.FieldPath) /\ (P # "" => StartsWith(f.EnvName, P))
              \/ /\ P # "" /\ StartsWith(f.EnvName, P)
                 /\ IsDerivedEnv(SubSeq(f.EnvName, Len(P) + 1, Len(f.EnvName)), f.FieldPath)
                 /\ ~StartsWith(SubSeq(f.EnvName, Len(P) + 1, Len(f.EnvName)), P)
         /\ Declared(f).flag = "" /\ ~opts.disableAutoFlag =>
              /\ Len(f.CliNames) = 1
              /\ IsDerivedFlag(f.CliNames[1], f.FieldPath)
              /\ f.CliName = f.CliNames[1]

\* a finished parse of a record whose untagged leaf lies two records deep,
\* read from the environment under its derived name or from its derived flag
AutoNamesWitness ==
  /\ Resolved /\ run = 1
  /\ \E k \in 1..Len(fields) :
       /\ fields[k].FieldPath = "Server.TLS.Port"
       /\ Declared(fields[k]) = NoTag
       /\ fields[k].EnvName = "SERVER_TLS_PORT"
       /\ fields[k].CliNames = <<"server-tls-port">>
       /\ \/ CliValue(fields[k]) = "7" /\ Assigned(k, 7)
          \/ CliValue(fields[k]) = "" /\ EnvValue(fields[k]) = "9" /\ Assigned(k, 9)

\* the names a flag tag lists: its comma-separated segments, trimmed
DeclaredFlags(f) == TrimAll(Split(Declared(f).flag, ","))

\* the flags of the descriptors are registered
Registered == pc \notin {"walk", "register"} /\ result.kind # "panic"

\* C15: with disableAutoEnv a field without an env tag has an empty envName
\* and resolves from its CLI value and its default alone; with
\* disableAutoFlag a field without a flag tag has no CLI names and no flag is
\* registered for it; declared names, the prefix and defaults are as without
\* the options
AutoDisabled ==
  Walked =>
    /\ \A k \in 1..Len(fields) :
         LET f == fields[k]
         IN /\ opts.disableAutoEnv /\ Declared(f).env = "" =>
                 /\ f.EnvName = ""
                 /\ Decided(k) =>
                      IF CliValue(f) # "" THEN Assigned(k, Coerced(f, CliValue(f)))
                      ELSE IF f.DefaultVal # "" THEN Assigned(k, Coerced(f, f.DefaultVal))
                      ELSE NotWritten(k)
            /\ opts.disableAutoFlag /\ Declared(f).flag = "" =>
                 /\ f.CliNames = <<>> /\ f.CliName = ""
            /\ Declared(f).env # "" =>
                 f.EnvName = IF opts.envPrefix = "" \/ StartsWith(Declared(f).env, opts.envPrefix)
                             THEN Declared(f).env
                             ELSE opts.envPrefix \o Declared(f).env
            /\ Declared(f).flag # "" => f.CliNames = DeclaredFlags(f)
            /\ f.DefaultVal = Declared(f).default
    /\ opts.disableAutoFlag /\ Registered =>
         \A name \in DOMAIN formal \ {"help", "h"} :
           \E k \in 1..Len(fields) :
             /\ Declared(fields[k]).flag # ""
             /\ \E i \in 1..Len(fields[k].CliNames) : fields[k].CliNames[i] = name

\* a finished parse with disableAutoEnv whose untagged field keeps its default
\* although the environment holds a value under the derived name, and a
\* finished parse with disableAutoFlag that registered the declared flag only
AutoDisabledWitness ==
  \/ /\ Resolved /\ run = 1 /\ opts.disableAutoEnv
     /\ {"FIELD1", "NESTED_FIELD3", "EXPLICIT_ENV"} \subseteq DOMAIN env
     /\ \E k, l, n \in 1..Len(fields) :
          /\ fields[k].FieldPath = "Field1" /\ fields[k].EnvName = ""
          /\ CliValue(fields[k]) = "" /\ Assigned(k, "default1")
          /\ fields[l].FieldPath = "Nested.Field3" /\ NotWritten(l)
          /\ fields[n].FieldPath = "Field2" /\ Assigned(n, env["EXPLICIT_ENV"])
  \/ /\ Resolved /\ run = 1 /\ opts.disableAutoFlag /\ opts.envPrefix = ""
     /\ DOMAIN formal = {"help", "h", "field2"}
     /\ "FIELD1" \in DOMAIN env
     /\ \E k, l \in 1..Len(fields) :
          /\ fields[k].FieldPath = "Field1" /\ fields[k].CliNames = <<>>
          /\ Assigned(k, env["FIELD1"])
          /\ fields[l].FieldPath = "Field2" /\ Assigned(l, "from_cli2")

(***************************************************************************)
(* String lists                                                           *)
(***************************************************************************)

\* the positions of the commas of s
Commas(s) == {i \in 1..Len(s) : SubSeq(s, i, i) = ","}

\* the position of the n-th comma of s, 0 before the first segment and
\* Len(s) + 1 after the last
NthComma(s, n) ==
  IF n = 0 THEN 0
  ELSE IF n > Cardinality(Commas(s)) THEN Len(s) + 1
  ELSE CHOOSE p \in Commas(s) : Cardinality({q \in Commas(s) : q <= p}) = n

\* the i-th comma-separated segment of s
Segment(s, i) == SubSeq(s, NthComma(s, i - 1) + 1, NthComma(s, i) - 1)

Blank(s) == \A i \in 1..Len(s) : SubSeq(s, i, i) \in {" ", "\t", "\n", "\r", "\f"}

\* e is seg without its surrounding whitespace
Trimmed(e, seg) ==
  \E a, b \in 0..Len(seg) :
    /\ a + b <= Len(seg)
    /\ e = SubSeq(seg, a + 1, Len(seg) - b)
    /\ Blank(SubSeq(seg, 1, a))
    /\ Blank(SubSeq(seg, Len(seg) - b + 1, Len(seg)))
    /\ e # "" => ~Blank(SubSeq(e, 1, 1)) /\ ~Blank(SubSeq(e, Len(e), Len(e)))

\* v is the list of the trimmed segments of raw, in their order
ListOf(v, raw) ==
  /\ Len(v) = Cardinality(Commas(raw)) + 1
  /\ \A i \in 1..Len(v) : Trimmed(v[i], Segment(raw, i))

IsList(f) == f.Kind = "slice" /\ f.Elem = "string"

\* C16: a string-list descriptor whose winning raw value is non-empty is
\* assigned one element per comma-separated segment of that value, the i-th
\* element being the i-th segment without its surrounding whitespace: order
\* and duplicates are kept
ListCoercion ==
  \A k \in 1..Len(fields) :
    Decided(k) /\ IsList(fields[k]) /\ WinningRaw(fields[k]) # "" =>
      \E i \in 1..Len(writes) :
        /\ writes[i].idx = k
        /\ ListOf(writes[i].val, WinningRaw(fields[k]))
        /\ Assigned(k, writes[i].val)

\* a finished parse that assigned the list of "a, b ,c" and the list of
\* "x,,x", with its empty middle element and its repeated x
ListCoercionWitness ==
  /\ Resolved /\ run = 1
  /\ \E k, l \in 1..Len(fields) :
       /\ IsList(fields[k]) /\ WinningRaw(fields[k]) = "a, b ,c"
       /\ Assigned(k, <<"a", "b", "c">>)
       /\ IsList(fields[l]) /\ WinningRaw(fields[l]) = "x,,x"
       /\ Assigned(l, <<"x", "", "x">>)

(***************************************************************************)
(* Integer kinds                                                          *)
(***************************************************************************)

SignedKinds == {"int", "int8", "int16", "int32", "int64"}

UnsignedKinds == {"uint", "uint8", "uint16", "uint32", "uint64"}

\* the largest magnitude of a kind, positive and negative, in digits
MaxDigitsOf(kind) ==
  IF kind = "int8" THEN "127"
  ELSE IF kind = "int16" THEN "32767"
  ELSE IF kind = "int32" THEN "2147483647"
  ELSE IF kind \in {"int", "int64"} THEN "9223372036854775807"
  ELSE IF kind = "uint8" THEN "255"
  ELSE IF kind = "uint16" THEN "65535"
  ELSE IF kind = "uint32" THEN "4294967295"
  ELSE "18446744073709551615"

MinDigitsOf(kind) ==
  IF kind = "int8" THEN "128"
  ELSE IF kind = "int16" THEN "32768"
  ELSE IF kind = "int32" THEN "2147483648"
  ELSE "9223372036854775808"

\* raw is a decimal integer within the width and signedness of the kind
FitsKind(kind, raw) ==
  IF kind \in SignedKinds
  THEN /\ ~AtoiSyntaxErr(raw)
       /\ DigitsLeq(StripZeros(Magnitude(raw)),
                    IF Ch(raw, 1) = "-" THEN MinDigitsOf(kind) ELSE MaxDigitsOf(kind))
  ELSE /\ raw # "" /\ AllDigits(raw)
       /\ DigitsLeq(StripZeros(raw), MaxDigitsOf(kind))

\* C17: a leaf of any integer type has its flags registered, is assigned its
\* winning value when that value lies in the range of the type, and a
\* winning value outside the range fails the resolution
IntegerKindsResolve ==
  \A k \in 1..Len(fields) :
    LET f == fields[k]
    IN f.Kind \in SignedKinds \cup UnsignedKinds =>
         /\ Registered /\ hasFlags(f) =>
              \A i \in 1..Len(f.CliNames) : f.CliNames[i] \in DOMAIN formal
         /\ Decided(k) /\ WinningRaw(f) # "" =>
              /\ FitsKind(f.Kind, WinningRaw(f))
              /\ ~NotWritten(k)
              /\ Len(WinningRaw(f)) <= 9 => Assigned(k, Atoi(WinningRaw(f)).val)

(***************************************************************************)
(* The tag key cli                                                        *)
(***************************************************************************)

\* C18: the cli tag of a field lists its CLI names, and each of them given
\* first on the command line with a value sets the field
CliTagNamesFlags ==
  \A k \in 1..Len(fields) :
    LET f == fields[k]
        names == TrimAll(Split(Declared(f).cli, ","))
    IN Declared(f).cli # "" =>
         /\ f.CliNames = names
         /\ \A i \in 1..Len(names) :
              /\ f.Kind = "string" /\ pc = "done" /\ Len(osArgs) >= 2
              /\ osArgs[1] = (IF Len(names[i]) = 1 THEN "-" ELSE "--") \o names[i]
              /\ ~DashForm(osArgs[2])
              => /\ result.kind \in {"ok", "error"}
                 /\ Stored(f) = osArgs[2]

(***************************************************************************)
(* Parse called twice                                                     *)
(***************************************************************************)

\* C19: a second resolution of the same record type with the same command
\* line and environment ends as the first did: the same values in every
\* field, or the same error
SecondParseSame ==
  run = 2 /\ pc = "done" => result = first.result /\ record = first.record

(***************************************************************************)
(* The usage text                                                         *)
(***************************************************************************)

\* the usage text was rendered: on --help or -h, or on a rejected command line
HelpRendered ==
  /\ pc = "done" /\ run = 1
  /\ lastFlag.err # "" \/ (showHelp /\ result.kind \in {"help", "panic"})

\* the length of the longest flag signature of the descriptors with flags
RECURSIVE LongestSignature(_)
LongestSignature(fs) ==
  IF fs = <<>> THEN 0
  ELSE LET rest == LongestSignature(Tail(fs))
           here == IF hasFlags(Head(fs)) THEN Len(flagSignature(Head(fs))) ELSE 0
       IN IF here > rest THEN here ELSE rest

\* the column of the descriptions: two spaces, the longest signature, four
\* spaces of padding and the separating space
DescColumn == 2 + LongestSignature(fields) + 4 + 2

\* the line's text from the description column on is desc, after blanks
DescAt(line, desc) ==
  /\ Len(line) = DescColumn - 1 + Len(desc)
  /\ SubSeq(line, DescColumn, Len(line)) = desc
  /\ SubSeq(line, DescColumn - 1, DescColumn - 1) = " "

\* C20: rendering the usage text of any descriptor list completes, its last
\* line is the line of the help switch, and the description of that line
\* starts in the column of the description of every field line, which the
\* longest flag signature determines
HelpRendersAligned ==
  HelpRendered =>
    /\ result.kind # "panic"
    /\ Len(stdout) >= 4
    /\ HasPrefix(stdout[Len(stdout)], "  -h, --help")
    /\ DescAt(stdout[Len(stdout)], "Show this help message")
    /\ \A i \in 4..Len(stdout) - 1 :
         \E k \in 1..Len(fields) : hasFlags(fields[k]) /\ DescAt(stdout[i], fieldDesc(fields[k]))

(***************************************************************************)
(* The lines of the help listing                                          *)
(***************************************************************************)

\* this call of Parse has rendered the usage text: for the help switch or
\* for a rejected command line
RenderedNow ==
  /\ pc = "done"
  /\ \/ lastFlag.err # ""
     \/ result.kind = "help"
     \/ result.kind = "panic" /\ result.msg = "strings: negative Repeat count"

\* where the last rendering starts in the output
LastUsage ==
  CHOOSE i \in 1..Len(stdout) :
    /\ stdout[i] = "Usage: " \o ProgName \o " [options]"
    /\ \A j \in i + 1..Len(stdout) : stdout[j] # stdout[i]

\* the positions in the descriptor list of the descriptors with CLI names
Flagged == {k \in 1..Len(fields) : fields[k].CliNames # <<>> /\ fields[k].CliName # ""}

\* the position of the n-th descriptor with CLI names
NthFlagged(n) == CHOOSE k \in Flagged : Cardinality({j \in Flagged : j <= k}) = n

\* the aliases from the i-th on as the listing shows them
RECURSIVE ShownAliases(_, _)
ShownAliases(names, i) ==
  IF i > Len(names) THEN ""
  ELSE (IF Len(names[i]) = 1 THEN "-" ELSE "--") \o names[i]
       \o (IF i < Len(names) THEN ", " ELSE "")
       \o ShownAliases(names, i + 1)

\* the flag column of a descriptor
ShownFlags(f) ==
  ShownAliases(f.CliNames, 1) \o (IF f.Kind = "bool" THEN "" ELSE " <value>")

\* the description column of a descriptor
ShownDesc(f) ==
  (IF f.Description # "" THEN f.Description ELSE f.FieldPath)
  \o (IF f.DefaultVal # "" /\ f.Kind # "bool" THEN " (default: " \o f.DefaultVal \o ")" ELSE "")
  \o (IF f.Required THEN " [required]" ELSE "")

\* line is the two columns of the descriptor, indented by two spaces, with
\* blanks between them
LineOf(line, f) ==
  LET left == "  " \o ShownFlags(f)
      right == " " \o ShownDesc(f)
  IN /\ Len(line) >= Len(left) + Len(right)
     /\ SubSeq(line, 1, Len(left)) = left
     /\ SubSeq(line, Len(line) - Len(right) + 1, Len(line)) = right
     /\ Blank(SubSeq(line, Len(left) + 1, Len(line) - Len(right)))

\* C21: the listing has one line for each descriptor with CLI names, in the
\* order of the descriptor list, and no line for any other descriptor; the
\* line shows every alias in declaration order, one-character aliases with
\* '-' and longer ones with '--', " <value>" unless the kind is boolean, the
\* description or else the field path, "(default: v)" for a non-empty
\* default of a non-boolean kind and "[required]" for a required descriptor
HelpLines ==
  RenderedNow =>
    LET n == Cardinality(Flagged)
        rest == Len(stdout) - (LastUsage + 2)
    IN /\ rest \in {n, n + 1}
       /\ \A j \in 1..n : LineOf(stdout[LastUsage + 2 + j], fields[NthFlagged(j)])
       /\ rest = n + 1 => SubSeq(stdout[Len(stdout)], 1, 12) = "  -h, --help"

\* a completed listing with a line of two aliases, one of them of one
\* character, for a required descriptor without description, a line with a
\* default, and a descriptor without CLI names that has no line
HelpLinesWitness ==
  /\ RenderedNow /\ result.kind = "help"
  /\ \E k \in 1..Len(fields) : k \notin Flagged
  /\ Len(stdout) = 3 + Cardinality(Flagged) + 1
  /\ \E j \in 1..Cardinality(Flagged) :
       LET f == fields[NthFlagged(j)]
       IN /\ Len(f.CliNames) = 2 /\ f.Kind # "bool" /\ f.Required
          /\ f.Description = ""
          /\ \E i \in 1..2 : Len(f.CliNames[i]) = 1
  /\ \E j \in 1..Cardinality(Flagged) : fields[NthFlagged(j)].DefaultVal # ""

(***************************************************************************)
(* The descriptor list of a call                                          *)
(***************************************************************************)

\* the merge pass is about to start, or has started
Merging == pc = "apply" \/ (pc = "done" /\ idx >= 1)

\* C22: when the merge pass of a call starts, the descriptor list is the
\* list the walk of that call produced: nothing of an earlier call on the
\* same parser is left in it and no field path occurs twice
FreshDescriptorList ==
  Merging =>
    /\ fields = walkStruct(config, typ, "", opts)
    /\ \A i, j \in 1..Len(fields) : fields[i].FieldPath = fields[j].FieldPath => i = j

\* the paths of the settable leaves of the record, nested records entered,
\* in depth-first declaration order
RECURSIVE SettableLeaves(_, _)
SettableLeaves(members, pathPrefix) ==
  IF members = <<>> THEN <<>>
  ELSE LET m == Head(members)
           path == IF pathPrefix = "" THEN m.name ELSE pathPrefix \o "." \o m.name
       IN (IF ~m.exported THEN <<>>
           ELSE IF m.kind = "struct" THEN SettableLeaves(m.members, path)
           ELSE <<path>>)
          \o SettableLeaves(Tail(members), pathPrefix)

\* the leaf at the path can be configured: it gets an envName, a CLI name or
\* a default
Configurable(path) ==
  LET tag == TagAt(typ, "", path)
  IN \/ tag.env # "" \/ ~opts.disableAutoEnv
     \/ tag.flag # "" \/ ~opts.disableAutoFlag
     \/ tag.default # ""

\* C23: after the walk the descriptor list holds one descriptor for each
\* settable leaf that has an envName, a CLI name or a default, in
\* depth-first declaration order and under its dot-joined path, and no
\* descriptor for anything else
WalkedList ==
  Walked =>
    LET leaves == SettableLeaves(typ, "")
        wanted == {i \in 1..Len(leaves) : Configurable(leaves[i])}
    IN /\ Len(fields) = Cardinality(wanted)
       /\ \A k \in 1..Len(fields) :
            \E i \in wanted :
              /\ fields[k].FieldPath = leaves[i]
              /\ Cardinality({j \in wanted : j <= i}) = k
              /\ fields[k].EnvName # "" \/ fields[k].CliName # "" \/ fields[k].DefaultVal # ""

(***************************************************************************)
(* The order of the assignments                                           *)
(***************************************************************************)

\* the descriptors the merge pass has gone past
Passed == {k \in 1..Len(fields) : k < idx}

\* C24: the record is written by the merge pass alone, one descriptor at a
\* time in list order: before the pass no field is written, and at every
\* point the fields written so far are the descriptors with a winning value
\* among those the pass has gone past, a prefix of the list
WritesFollowList ==
  /\ idx = 0 => writes = <<>> /\ record = before
  /\ \A i \in 1..Len(writes) :
       /\ writes[i].idx \in Passed
       /\ writes[i].path = fields[writes[i].idx].FieldPath
       /\ i > 1 => writes[i - 1].idx < writes[i].idx
  /\ {writes[i].idx : i \in 1..Len(writes)}
       = {k \in Passed : WinningRaw(fields[k]) # ""}

(***************************************************************************)
(* Fields the walk drops                                                  *)
(***************************************************************************)

\* the settable leaves tagged required that get no envName, no CLI name and
\* no default
DroppedRequired ==
  LET leaves == SettableLeaves(typ, "")
  IN {leaves[i] : i \in {j \in 1..Len(leaves) :
                           /\ TagAt(typ, "", leaves[j]).required = "true"
                           /\ ~Configurable(leaves[j])}}

\* C25: a required field that ends up without envName, CLI name and default
\* has no descriptor and is never checked: it is not reported as missing, it
\* is never written, and resolution can succeed without it
DroppedNeverChecked ==
  Walked =>
    \A path \in DroppedRequired :
      /\ \A k \in 1..Len(fields) : fields[k].FieldPath # path
      /\ \A i \in 1..Len(missingFields) : ~Contains(missingFields[i], path)
      /\ result.kind = "error" => ~Contains(result.msg, path)
      /\ record[path] = before[path]
      /\ pc = "done" /\ idx > Len(fields) =>
           (result.kind = "ok" <=> \A k \in 1..Len(fields) : ~Lacking(fields[k]))

\* resolution succeeded although the required field Token has no value from
\* any source, and Token holds what the caller had stored in it
DroppedNeverCheckedWitness ==
  /\ Resolved
  /\ "Token" \in DroppedRequired
  /\ "TOKEN" \notin DOMAIN env
  /\ before["Token"] = "old" /\ record["Token"] = "old"
  /\ record["Mode"] = "dev"

(***************************************************************************)
(* Fields of a kind the switches have no case for                         *)
(***************************************************************************)

\* the kind of the member is none of string, int, float32/float64, bool and
\* list of strings
OtherKind(m) ==
  /\ m.kind \notin {"string", "int", "float32", "float64", "bool", "struct"}
  /\ ~(m.kind = "slice" /\ m.elem = "string")

OtherKinds == {k \in 1..Len(fields) : ~SpecKind(fields[k])}

AliasesOf(f) == {f.CliNames[i] : i \in 1..Len(f.CliNames)}

\* every top-level settable leaf of such a kind that can be configured has a
\* descriptor
OtherKindsWalked ==
  \A i \in 1..Len(typ) :
    typ[i].exported /\ OtherKind(typ[i]) /\ Configurable(typ[i].name) =>
      \E k \in OtherKinds : fields[k].FieldPath = typ[i].name /\ fields[k].Kind = typ[i].kind

\* no alias of descriptor k is registered, unless another descriptor, of a
\* kind that gets a flag, declares the same alias
Unflagged(k) ==
  \A n \in AliasesOf(fields[k]) :
    n \in DOMAIN formal =>
      \E j \in 1..Len(fields) :
        /\ fields[j].FieldPath # fields[k].FieldPath
        /\ n \in AliasesOf(fields[j])
        /\ SpecKind(fields[j]) \/ fields[j].Kind = "slice"

\* the merge pass went past descriptor k, which had a winning value, without
\* writing the field, without an error and without counting it as missing
DroppedSilently(k) ==
  /\ Decided(k) /\ WinningRaw(fields[k]) # "" =>
       /\ NotWritten(k)
       /\ Stored(fields[k]) = StoredBefore(fields[k])
       /\ \A i \in 1..Len(missingFields) : missingFields[i] # missingEntry(fields[k])
  /\ ~(pc = "done" /\ idx = k)

\* the call succeeds when the pass ends and no required descriptor, of
\* whatever kind, lacks a value
SatisfiedByAnyValue ==
  MergeCompleted /\ (\A k \in 1..Len(fields) : ~Lacking(fields[k])) => result.kind = "ok"

\* C26 as stated: a settable leaf of a kind other than string, int,
\* float32/float64, bool and list of strings gets a descriptor, no flag is
\* registered for it, and a winning value is dropped without an error: the
\* field keeps its previous value and a required such field counts as
\* satisfied
OtherKindsUnflagged ==
  Registered =>
    /\ OtherKindsWalked
    /\ \A k \in OtherKinds : Unflagged(k) /\ DroppedSilently(k)
    /\ SatisfiedByAnyValue

\* C26: such a field gets a descriptor; unless it is a list no flag is
\* registered for it, and a list of any element kind gets a flag under each
\* of its aliases; a winning value, whether it comes from the command line,
\* the environment or the default, is dropped without an error: the field
\* keeps its previous value and a required such field counts as satisfied
OtherKindsDropped ==
  Registered =>
    /\ OtherKindsWalked
    /\ \A k \in OtherKinds :
         /\ IF fields[k].Kind = "slice"
            THEN \A n \in AliasesOf(fields[k]) :
                   n \in DOMAIN formal /\ formal[n].kind = "slice"
            ELSE Unflagged(k)
         /\ DroppedSilently(k)
    /\ SatisfiedByAnyValue

\* the call succeeded on a filled record: the required Timeout, a 64-bit
\* integer, had a value in the environment and kept what it held, no flag
\* timeout exists, and the list of integers Sizes kept what it held although
\* --sizes was accepted and recorded
OtherKindsDroppedWitness ==
  /\ Resolved
  /\ \E t, z \in OtherKinds :
       /\ fields[t].Kind = "int64" /\ fields[t].Required
       /\ EnvValue(fields[t]) = "7"
       /\ AliasesOf(fields[t]) = {"timeout", "t"}
       /\ AliasesOf(fields[t]) \cap DOMAIN formal = {}
       /\ Stored(fields[t]) = 5 /\ StoredBefore(fields[t]) = 5
       /\ fields[z].Kind = "slice" /\ fields[z].Elem = "int"
       /\ "sizes" \in DOMAIN formal
       /\ CliValue(fields[z]) = "3,4"
       /\ Stored(fields[z]) = StoredBefore(fields[z])

(***************************************************************************)
(* The record returned with the missing-required error                    *)
(***************************************************************************)

\* Parse returned the aggregated error of the required check
MissingReturned == MergeCompleted /\ result.kind = "error"

\* C27: when the call fails with the aggregated missing-required error,
\* every descriptor that had a winning value has been coerced and assigned
\* all the same
MissingKeepsAssignments ==
  MissingReturned =>
    \A k \in 1..Len(fields) :
      WinningRaw(fields[k]) # "" =>
        /\ ~NotWritten(k)
        /\ Stored(fields[k]) = Coerced(fields[k], WinningRaw(fields[k]))

(***************************************************************************)
(* Several values for one descriptor on the command line                  *)
(***************************************************************************)

\* the positions, in token order, at which one of the names was parsed
SeenAt(names) == {i \in 1..Len(seen) : seen[i].name \in names}

LastOf(positions) == CHOOSE i \in positions : \A j \in positions : j <= i

\* the alias that Visit, going through the names in lexicographic order,
\* reaches last among the aliases that were set
VisitedLast(names) ==
  CHOOSE n \in names : \A m \in names : m = n \/ StrLess(m, n)

SetAliases(f) == {n \in AliasesOf(f) : SeenAt({n}) # {}}

\* C28: a non-boolean descriptor given several values on the command line,
\* under one alias or several, records the value of the last occurrence in
\* token order; a boolean descriptor whose aliases were set records, once
\* the flags have been visited, the value of the alias that comes last in
\* lexicographic order of the flag names, wherever its token stands
LastValueRecorded ==
  Registered =>
    \A k \in 1..Len(fields) :
      /\ fields[k].Kind # "bool" /\ (SpecKind(fields[k]) \/ fields[k].Kind = "slice")
         /\ SeenAt(AliasesOf(fields[k])) # {}
           => /\ fields[k].CliName \in DOMAIN flagValues
              /\ flagValues[fields[k].CliName]
                   = seen[LastOf(SeenAt(AliasesOf(fields[k])))].value
      /\ fields[k].Kind = "bool" /\ Merging /\ SetAliases(fields[k]) # {}
           => /\ fields[k].CliName \in DOMAIN flagValues
              /\ flagValues[fields[k].CliName]
                   = FormatBool(ParseBool(
                       seen[LastOf(SeenAt({VisitedLast(SetAliases(fields[k]))}))].value).val)

\* --host=a -H=b --debug=false -d: the two aliases of a string descriptor
\* were given different values and b, given last, is recorded and assigned;
\* the switch given last in token order says true, the alias debug comes
\* after d in the order of the names, and false is recorded and assigned
LastValueRecordedWitness ==
  /\ Resolved
  /\ osArgs = <<"--host=a", "-H=b", "--debug=false", "-d">>
  /\ seen = << [name |-> "host", value |-> "a"], [name |-> "H", value |-> "b"],
               [name |-> "debug", value |-> "false"], [name |-> "d", value |-> "true"] >>
  /\ \E k \in 1..Len(fields) :
       /\ fields[k].Kind = "string"
       /\ AliasesOf(fields[k]) = {"host", "H"}
       /\ flagValues[fields[k].CliName] = "b"
       /\ Stored(fields[k]) = "b"
  /\ \E k \in 1..Len(fields) :
       /\ fields[k].Kind = "bool"
       /\ SetAliases(fields[k]) = {"d", "debug"}
       /\ flagValues[fields[k].CliName] = "false"
       /\ Stored(fields[k]) = FALSE

(***************************************************************************)
(* Descriptors that share an alias, and the reserved names                *)
(***************************************************************************)

\* two descriptors share a CLI alias
SharedAlias ==
  \E j, k \in 1..Len(fields) : j < k /\ AliasesOf(fields[j]) \cap AliasesOf(fields[k]) # {}

\* an alias of a descriptor is one of the reserved names help and h
ReservedAlias == \E k \in 1..Len(fields) : AliasesOf(fields[k]) \cap {"help", "h"} # {}

\* the call ended in the panic of a flag defined twice, no token parsed and
\* no field assigned
RedefinedPanic ==
  /\ pc = "done"
  /\ result.kind = "panic"
  /\ Contains(result.msg, "flag redefined: ")
  /\ seen = <<>>
  /\ Untouched

\* C29: when two descriptors share a CLI alias, or a descriptor's alias is
\* help or h, registration ends the call with the panic of a redefined flag
\* before a token is parsed or a field assigned; the call never goes on with
\* one of the descriptors winning
CollisionPanics ==
  Walked /\ (SharedAlias \/ ReservedAlias) => pc = "register" \/ RedefinedPanic

(***************************************************************************)
(* What a call of Parse leaves alone                                      *)
(***************************************************************************)

\* the paths of the descriptors for which a source yields a non-empty value
Winning == {fields[k].FieldPath : k \in {j \in 1..Len(fields) : WinningRaw(fields[j]) # ""}}

\* C30: a call changes only the storage of descriptors that have a winning
\* value: a descriptor for which no source yields a non-empty value, and a
\* member that is not a descriptor, holds during and after the call, whether
\* it succeeds or fails, the value the record held before it
FrameKept ==
  \A path \in DOMAIN record : path \notin Winning => record[path] = before[path]

\* the call returned on a record the caller had filled: Mode was assigned
\* its default, Region, a descriptor without a value from any source, and
\* Token, which is no descriptor, hold what the caller had stored
FrameKeptWitness ==
  /\ pc = "done" /\ result.kind \in {"ok", "error"}
  /\ \E k \in 1..Len(fields) :
       /\ fields[k].FieldPath = "Region" /\ WinningRaw(fields[k]) = ""
  /\ \A k \in 1..Len(fields) : fields[k].FieldPath # "Token"
  /\ before = [Token |-> "old", Mode |-> "old", Region |-> "old"]
  /\ record = [Token |-> "old", Mode |-> "dev", Region |-> "old"]

====
